---- MODULE Spec2Model ----
(***************************************************************************)
(* Pulse-instruction compiler of tergite-backend                           *)
(* (app/libs/quantum_executor): grid alignment, decoding of wire           *)
(* instructions into native instructions registered on channels, schedule  *)
(* assembly (the per-channel DAG) and rendering into operations.           *)
(*                                                                         *)
(* Times are Python floats (IEEE-754 doubles) in seconds.  Every double    *)
(* the compiler computes from whole-nanosecond wire times has the form     *)
(*        a * U + k * 2^-82      with  U = the double nearest to 1e-9,     *)
(* a a whole number of nanoseconds and k a small integer, so a time is the *)
(* pair <<a, k>>; the arithmetic below rounds as the hardware does (round  *)
(* to nearest, ties to even) and is exact for the values the model uses.   *)
(* Phases and frequencies are integers (multiples of one quantum).         *)
(***************************************************************************)
EXTENDS Integers, Sequences, FiniteSets, TLC

(***************************************************************************)
(* Bounds of the model.                                                    *)
(***************************************************************************)
\* largest |raw time| in nanoseconds handed to the aligner on its own
MaxRaw == 40
\* largest number of wire instructions of one job
MaxInstr == 3
\* largest number of calls made on one executor
MaxCalls == 3
\* number of threads that hold a reference to the executor
NumThreads == 2
\* largest number of compilation passes made in one process
MaxPasses == 2
\* largest number of jobs the calibration procedures request
MaxJobs == 3

(***************************************************************************)
(* IEEE-754 double arithmetic on <<a, k>> (value a*M + k in units of       *)
(* 2^-82 s, M = 4835703278458517 the 53-bit significand of 1e-9).          *)
(***************************************************************************)
\* M mod 1024: the low bits of the significand of the double 1e-9
MLow == 661

Pow2(j) == 2 ^ j

AbsI(n) == IF n < 0 THEN 0 - n ELSE n

\* the exponent j with 2^(52+j) <= a*M < 2^(53+j), for a >= 1
\* (M / 2^52 = 1e-9 * 2^30 = 1.073741824)
Binade(a) == CHOOSE j \in 0..10 : Pow2(j) * 1000000 <= a * 1073742
                                  /\ a * 1073742 < Pow2(j + 1) * 1000000

\* the double nearest to the real number a*M + k
RoundF(a, k) ==
    IF a = 0 THEN <<0, k>>
    ELSE LET p    == Pow2(Binade(AbsI(a)))
             low  == (a * MLow + k) % p
             down == k - low
             up   == down + p
         IN IF 2 * low < p THEN <<a, down>>
            ELSE IF 2 * low > p THEN <<a, up>>
            ELSE IF (a * MLow + down) % (2 * p) = 0 THEN <<a, down>>
            ELSE <<a, up>>

\* float(n) * 1e-9 for a whole number n
TimesNano(n) == RoundF(n, 0)

AddF(x, y) == RoundF(x[1] + y[1], x[2] + y[2])

SubF(x, y) == RoundF(x[1] - y[1], x[2] - y[2])

NegF(x) == <<0 - x[1], 0 - x[2]>>

ZeroF == <<0, 0>>

IsNegF(x) == x[1] < 0 \/ (x[1] = 0 /\ x[2] < 0)

LtF(x, y) == x[1] < y[1] \/ (x[1] = y[1] /\ x[2] < y[2])

LeF(x, y) == x = y \/ LtF(x, y)

\* C fmod(x, g) for x >= 0 and a grid g = <<ga, 0>>: exact, 0 <= result < g
FmodPos(x, g) ==
    LET ra == x[1] % g[1]
    IN IF ra > 0 \/ x[2] >= 0 THEN <<ra, x[2]>> ELSE <<g[1], x[2]>>

\* C fmod(x, g): the remainder carries the sign of x
Fmod(x, g) == IF IsNegF(x) THEN NegF(FmodPos(NegF(x), g)) ELSE FmodPos(x, g)

\* Python's float x % g for g > 0: fmod, then + g when the remainder is negative
PyMod(x, g) ==
    LET r == Fmod(x, g)
    IN IF r = ZeroF THEN ZeroF
       ELSE IF IsNegF(r) THEN AddF(r, g) ELSE r

(***************************************************************************)
(* Grid alignment.                                                         *)
(***************************************************************************)
\* QBLOX_TIMEGRID_INTERVAL = 4e-9 (= 4 * U exactly)
QBLOX_TIMEGRID_INTERVAL == <<4, 0>>

_map_to_qblox_timegrid(raw_time, grid_interval) ==
    LET time_to_next_gridline == PyMod(SubF(grid_interval, raw_time), grid_interval)
    IN AddF(raw_time, time_to_next_gridline)

\* the call sites: _map_to_qblox_timegrid(n * 1e-9)
AlignNs(n) == _map_to_qblox_timegrid(TimesNano(n), QBLOX_TIMEGRID_INTERVAL)

(***************************************************************************)
(* State.                                                                  *)
(***************************************************************************)
VARIABLES
    al_raw,            \* aligner on its own: the raw time, in whole nanoseconds
    al_out,            \* aligner on its own: results of the successive applications
    native_config,     \* NativeQobjConfig of the job (acquisition protocol)
    pulse_library,     \* PulseQobjConfig.pulse_library: name -> sample array
    wire,              \* the PulseQobjInstructions decoded so far, in order
    channel_registry,  \* QuantifyChannelRegistry: clock -> registered instructions
    instructions,      \* NativeExperiment.instructions, in decoding order
    next_label,        \* labels handed out so far (uuid4 never repeats)
    dag,               \* NativeExperiment.dag (cached once computed)
    operations,        \* the operations rendered so far, in rendering order
    pc,                \* "decoding", "assembled", "failed", "returned", "dispatched"
    error,             \* the exception that ended the pass, or "none"
    executor,          \* a QiskitPulse1QExecutor or QiskitPulse2QExecutor: its attributes
    threads,           \* the caller threads: where each is in its call on the executor
    ex_log,            \* what has happened on the executor so far
    process,           \* what outlives a compilation pass in the Python process
    supervisor,        \* job supervisor: job id -> cancellation label, locations told
    storage,           \* the logfile upload pool and download pool (file names)
    rq_logfile_postprocessing,  \* the post-processing queue: tasks enqueued, tasks started
    requests,          \* the upload_logfile request of each logfile: where it is
    worker,            \* the post-processing worker: where it is in logfile_postprocess
    calibration,       \* the calibration coroutine and its job_done_evt
    red                \* Redis: post-processing results, calibration parameters

vars == <<al_raw, al_out, native_config, pulse_library, wire, channel_registry,
          instructions, next_label, dag, operations, pc, error,
          executor, threads, ex_log, process,
          supervisor, storage, rq_logfile_postprocessing, requests, worker,
          calibration, red>>

svcvars == <<supervisor, storage, rq_logfile_postprocessing, requests, worker,
             calibration, red>>

exvars == <<executor, threads, ex_log>>

jobvars == <<native_config, pulse_library, wire, channel_registry,
             instructions, next_label, dag, operations, pc, error>>

alvars == <<al_raw, al_out>>

(***************************************************************************)
(* Wire instructions (PulseQobjInstruction) the model draws from.          *)
(***************************************************************************)
WireT0s == {0, 40}

PhaseValues == {1, 2}

\* qobj_inst.frequency * 1e9: wire frequencies are in GHz, native ones in Hz
\* (the model counts native frequencies in kHz)
GigaHertz == 1000000

WireDefaults == [name |-> "", ch |-> "", t0 |-> 0, duration |-> 0, phase |-> 0,
                 frequency |-> 0, qubits |-> <<>>, memory_slot |-> <<>>,
                 parameters |-> [duration |-> 0], pulse_shape |-> ""]

WireDelays ==
    { [WireDefaults EXCEPT !.name = "delay", !.ch = "d0", !.t0 = t, !.duration = 3] :
        t \in WireT0s }
    \cup { [WireDefaults EXCEPT !.name = "delay", !.ch = "m0", !.duration = 3] }

WireAcquires ==
    { [WireDefaults EXCEPT !.name = "acquire", !.ch = "m0", !.t0 = t, !.duration = 40,
                           !.qubits = <<0>>, !.memory_slot = <<0>>] : t \in WireT0s }
    \cup { [WireDefaults EXCEPT !.name = "acquire", !.ch = "m0", !.duration = 40,
                                !.qubits = <<1, 0>>, !.memory_slot = <<0, 1>>] }

WirePhases ==
    { [WireDefaults EXCEPT !.name = "setp", !.ch = "d0", !.phase = ph] :
        ph \in PhaseValues }
    \cup { [WireDefaults EXCEPT !.name = "fc", !.ch = "d0", !.duration = 3,
                                !.phase = 1] }

WireFrequencies ==
    { [WireDefaults EXCEPT !.name = n, !.ch = "d0", !.frequency = 1] :
        n \in {"setf", "shiftf"} }

WirePulses ==
    { [WireDefaults EXCEPT !.name = "parametric_pulse", !.ch = "d0", !.t0 = t,
                           !.parameters = [duration |-> 3],
                           !.pulse_shape = "constant"] : t \in WireT0s }
    \cup { [WireDefaults EXCEPT !.name = "wf0", !.ch = "d0"] }

\* a pulse named after a waveform the job's pulse_library does not hold
WireUnknownPulses == { [WireDefaults EXCEPT !.name = "wf1", !.ch = "d1"] }

WireInstructions ==
    WireDelays \cup WireAcquires \cup WirePhases \cup WireFrequencies \cup WirePulses
    \cup WireUnknownPulses

(***************************************************************************)
(* Channels: QuantifyChannel and QuantifyChannelRegistry.                  *)
(***************************************************************************)
\* QuantifyChannelRegistry.get: the channel's instruction list, empty on first lookup
RegistryGet(registry, clock) ==
    IF clock \in DOMAIN registry THEN registry[clock] ELSE <<>>

\* QuantifyChannelRegistry.get: its effect on the registry (the channel is
\* created on first lookup)
RegistryCreate(registry, clock) ==
    IF clock \in DOMAIN registry THEN registry ELSE (clock :> <<>>) @@ registry

\* QuantifyChannel.register_instruction: the position the instruction gets
register_instruction(channel_instructions, instruction) == Len(channel_instructions)

\* QuantifyChannel.register_instruction: its effect on the channel's list
RegisterAppend(channel_instructions, instruction) ==
    Append(channel_instructions, instruction)

(***************************************************************************)
(* Native instructions.                                                    *)
(***************************************************************************)
InstrDefaults == [name |-> "", t0 |-> ZeroF, channel |-> "", port |-> "",
                  duration |-> ZeroF, frequency |-> 0, phase |-> 0,
                  memory_slot |-> 0, protocol |-> "", parameters |-> [duration |-> 0],
                  pulse_shape |-> "", bin_mode |-> "", acq_return_type |-> "",
                  label |-> 0, position |-> 0]

\* variant of BaseInstructionInit: the position is the list length after the append
BaseInstructionInit_after(kwargs, channel_instructions, label) ==
    LET self == [kwargs EXCEPT !.label = label]
    IN [self EXCEPT !.position = Len(channel_instructions) + 1]

\* BaseInstruction.__init__: a fresh label, the keyword attributes, then the
\* position returned by the channel's register_instruction
BaseInstructionInit(kwargs, channel_instructions, label) ==
    LET self == [kwargs EXCEPT !.label = label]
    IN [self EXCEPT !.position = register_instruction(channel_instructions, self)]

\* BaseInstruction.__eq__: both carry the same attributes, and every attribute
\* other than the label has the same value in both
__eq__(self, other) ==
    /\ DOMAIN self = DOMAIN other
    /\ \A attr \in DOMAIN self \ {"label"} : self[attr] = other[attr]

\* variant of get_phase_delta: SetPhase adds its phase without resetting the channel
get_phase_delta_noreset(instruction, channel) ==
    CASE instruction.name = "setp" -> instruction.phase
      [] instruction.name = "fc"   -> instruction.phase
      [] OTHER                     -> 0

\* variant of get_phase_delta: ShiftPhase sets the phase like SetPhase
get_phase_delta_shiftsets(instruction, channel) ==
    CASE instruction.name = "setp" -> instruction.phase - channel.final_phase
      [] instruction.name = "fc"   -> instruction.phase - channel.final_phase
      [] OTHER                     -> 0

\* get_phase_delta of every instruction class; channel.final_phase is the
\* phase of the channel the delta is added to
get_phase_delta(instruction, channel) ==
    CASE instruction.name = "setp" -> instruction.phase - channel.final_phase
      [] instruction.name = "fc"   -> instruction.phase
      [] OTHER                     -> 0

\* variant of get_frequency_delta: SetFrequency adds its frequency without
\* resetting the channel
get_frequency_delta_noreset(instruction, channel) ==
    CASE instruction.name = "setf"   -> instruction.frequency
      [] instruction.name = "shiftf" -> instruction.frequency
      [] OTHER                       -> 0

\* get_frequency_delta of every instruction class
get_frequency_delta(instruction, channel) ==
    CASE instruction.name = "setf"   -> instruction.frequency - channel.final_frequency
      [] instruction.name = "shiftf" -> instruction.frequency
      [] OTHER                       -> 0

\* variant of get_acquisitions_delta: every instruction counts as an acquisition
get_acquisitions_delta_all(instruction, channel) == 1

\* get_acquisitions_delta of every instruction class
get_acquisitions_delta(instruction, channel) ==
    IF instruction.name = "acquire" THEN 1 ELSE 0

\* the running state of a channel after the contributions of its first n
\* instructions (positions 0..n-1), summed in position order
RECURSIVE ChannelStateAfter(_, _)
ChannelStateAfter(channel_instructions, n) ==
    IF n = 0 THEN [final_phase |-> 0, final_frequency |-> 0, acquisitions |-> 0]
    ELSE LET channel == ChannelStateAfter(channel_instructions, n - 1)
             instruction == channel_instructions[n]
         IN [final_phase |-> channel.final_phase
                                + get_phase_delta(instruction, channel),
             final_frequency |-> channel.final_frequency
                                + get_frequency_delta(instruction, channel),
             acquisitions |-> channel.acquisitions
                                + get_acquisitions_delta(instruction, channel)]

\* the state of a channel nothing is registered on
NoChannelState == [final_phase |-> 0, final_frequency |-> 0, acquisitions |-> 0]

\* variant of Accumulate: the contributions are evaluated against the empty
\* channel instead of the running state
Accumulate_fromzero(channel, instruction) ==
    [final_phase |-> channel.final_phase
                       + get_phase_delta(instruction, NoChannelState),
     final_frequency |-> channel.final_frequency
                       + get_frequency_delta(instruction, NoChannelState),
     acquisitions |-> channel.acquisitions
                       + get_acquisitions_delta(instruction, NoChannelState)]

\* one step of the forward pass: the running state of the channel once the
\* instruction's contributions have been added to it
Accumulate(channel, instruction) ==
    [final_phase |-> channel.final_phase + get_phase_delta(instruction, channel),
     final_frequency |-> channel.final_frequency
                           + get_frequency_delta(instruction, channel),
     acquisitions |-> channel.acquisitions
                        + get_acquisitions_delta(instruction, channel)]

\* the forward pass over a channel's instructions from the running state
\* channel on: the states at the successive positions, the last one being
\* the state after all of them
RECURSIVE ForwardPass(_, _)
ForwardPass(channel_instructions, channel) ==
    IF channel_instructions = <<>> THEN <<channel>>
    ELSE <<channel>> \o ForwardPass(Tail(channel_instructions),
                                    Accumulate(channel, Head(channel_instructions)))

\* QuantifyChannel.get_frequency_at_position: contributions of positions < position
get_frequency_at_position(channel_instructions, position) ==
    ChannelStateAfter(channel_instructions, position).final_frequency

\* QuantifyChannel.get_phase_at_position: contributions of positions < position
get_phase_at_position(channel_instructions, position) ==
    ChannelStateAfter(channel_instructions, position).final_phase

\* QuantifyChannel.get_acquisitions_at_position: acquisitions up to and
\* including the one at position
get_acquisitions_at_position(channel_instructions, position) ==
    ChannelStateAfter(channel_instructions, position + 1).acquisitions

(***************************************************************************)
(* Decoding: list_from_qobj_inst of each instruction class gives the       *)
(* keyword attributes of the instructions it constructs, in order.         *)
(***************************************************************************)
\* f"m{qubit_idx}"
MeasureClock(qubit_idx) == <<"m0", "m1">>[qubit_idx + 1]

\* variant of AcquireKwargs: the memory slot is looked up by the qubit index
AcquireKwargs_byqubit(qobj_inst, config) ==
    LET t0 == AlignNs(qobj_inst.t0)
        duration == AlignNs(qobj_inst.duration)
    IN [n \in 1..Len(qobj_inst.qubits) |->
          [InstrDefaults EXCEPT !.name = "acquire", !.t0 = t0,
                                !.channel = MeasureClock(qobj_inst.qubits[n]),
                                !.port = MeasureClock(qobj_inst.qubits[n]),
                                !.duration = duration,
                                !.memory_slot =
                                    qobj_inst.memory_slot[qobj_inst.qubits[n] + 1],
                                !.protocol = config.protocol,
                                !.acq_return_type = config.acq_return_type,
                                !.bin_mode = config.bin_mode]]

AcquireKwargs(qobj_inst, config) ==
    LET t0 == AlignNs(qobj_inst.t0)
        duration == AlignNs(qobj_inst.duration)
    IN [n \in 1..Len(qobj_inst.qubits) |->
          [InstrDefaults EXCEPT !.name = "acquire", !.t0 = t0,
                                !.channel = MeasureClock(qobj_inst.qubits[n]),
                                !.port = MeasureClock(qobj_inst.qubits[n]),
                                !.duration = duration,
                                !.memory_slot = qobj_inst.memory_slot[n],
                                !.protocol = config.protocol,
                                !.acq_return_type = config.acq_return_type,
                                !.bin_mode = config.bin_mode]]

DelayKwargs(qobj_inst) ==
    <<[InstrDefaults EXCEPT !.name = "delay", !.t0 = AlignNs(qobj_inst.t0),
                            !.channel = qobj_inst.ch, !.port = qobj_inst.ch,
                            !.duration = AlignNs(qobj_inst.duration)]>>

SetFreqKwargs(qobj_inst) ==
    <<[InstrDefaults EXCEPT !.name = "setf", !.t0 = AlignNs(qobj_inst.t0),
                            !.channel = qobj_inst.ch, !.port = qobj_inst.ch,
                            !.duration = ZeroF,
                            !.frequency = qobj_inst.frequency * GigaHertz]>>

ShiftFreqKwargs(qobj_inst) ==
    <<[InstrDefaults EXCEPT !.name = "shiftf", !.t0 = AlignNs(qobj_inst.t0),
                            !.channel = qobj_inst.ch, !.port = qobj_inst.ch,
                            !.duration = ZeroF,
                            !.frequency = qobj_inst.frequency * GigaHertz]>>

SetPhaseKwargs(qobj_inst) ==
    <<[InstrDefaults EXCEPT !.name = "setp", !.t0 = AlignNs(qobj_inst.t0),
                            !.channel = qobj_inst.ch, !.port = qobj_inst.ch,
                            !.duration = ZeroF, !.phase = qobj_inst.phase]>>

ShiftPhaseKwargs(qobj_inst) ==
    <<[InstrDefaults EXCEPT !.name = "fc", !.t0 = AlignNs(qobj_inst.t0),
                            !.channel = qobj_inst.ch, !.port = qobj_inst.ch,
                            !.duration = ZeroF, !.phase = qobj_inst.phase]>>

\* variant of ParamPulseKwargs: the duration is read from the wire instruction
ParamPulseKwargs_wire(qobj_inst) ==
    <<[InstrDefaults EXCEPT !.name = "parametric_pulse", !.t0 = AlignNs(qobj_inst.t0),
                            !.channel = qobj_inst.ch, !.port = qobj_inst.ch,
                            !.duration = AlignNs(qobj_inst.duration),
                            !.pulse_shape = qobj_inst.pulse_shape,
                            !.parameters = qobj_inst.parameters]>>

ParamPulseKwargs(qobj_inst) ==
    <<[InstrDefaults EXCEPT !.name = "parametric_pulse", !.t0 = AlignNs(qobj_inst.t0),
                            !.channel = qobj_inst.ch, !.port = qobj_inst.ch,
                            !.duration = AlignNs(qobj_inst.parameters.duration),
                            !.pulse_shape = qobj_inst.pulse_shape,
                            !.parameters = qobj_inst.parameters]>>

\* the duration is the number of samples stored under the instruction's name
PulseLibKwargs(qobj_inst, library) ==
    <<[InstrDefaults EXCEPT !.name = qobj_inst.name, !.t0 = AlignNs(qobj_inst.t0),
                            !.channel = qobj_inst.ch, !.port = qobj_inst.ch,
                            !.duration = AlignNs(Len(library[qobj_inst.name]))]>>

\* the instruction class is chosen by the wire instruction's name
ListFromQobjInst(qobj_inst, config, library) ==
    CASE qobj_inst.name = "acquire"          -> AcquireKwargs(qobj_inst, config)
      [] qobj_inst.name = "delay"            -> DelayKwargs(qobj_inst)
      [] qobj_inst.name = "setf"             -> SetFreqKwargs(qobj_inst)
      [] qobj_inst.name = "shiftf"           -> ShiftFreqKwargs(qobj_inst)
      [] qobj_inst.name = "setp"             -> SetPhaseKwargs(qobj_inst)
      [] qobj_inst.name = "fc"               -> ShiftPhaseKwargs(qobj_inst)
      [] qobj_inst.name = "parametric_pulse" -> ParamPulseKwargs(qobj_inst)
      [] OTHER                               -> PulseLibKwargs(qobj_inst, library)

\* the constructors run one after the other; each registers its instruction
\* on its channel (created on first lookup) before the next one runs
\* variant of Construct: the constructor registers its instruction twice
RECURSIVE Construct_twice(_, _, _)
Construct_twice(kwargs_list, registry, label) ==
    IF kwargs_list = <<>>
    THEN [registry |-> registry, created |-> <<>>]
    ELSE LET kwargs == Head(kwargs_list)
             channel == RegistryGet(registry, kwargs.channel)
             self == BaseInstructionInit(kwargs, channel, label)
             registered == (kwargs.channel :>
                              RegisterAppend(RegisterAppend(channel, self), self))
                           @@ registry
             rest == Construct_twice(Tail(kwargs_list), registered, label + 1)
         IN [registry |-> rest.registry, created |-> <<self>> \o rest.created]

RECURSIVE Construct(_, _, _)
Construct(kwargs_list, registry, label) ==
    IF kwargs_list = <<>>
    THEN [registry |-> registry, created |-> <<>>]
    ELSE LET kwargs == Head(kwargs_list)
             channel == RegistryGet(registry, kwargs.channel)
             self == BaseInstructionInit(kwargs, channel, label)
             registered == (kwargs.channel :> RegisterAppend(channel, self)) @@ registry
             rest == Construct(Tail(kwargs_list), registered, label + 1)
         IN [registry |-> rest.registry, created |-> <<self>> \o rest.created]

(***************************************************************************)
(* Schedule assembly: NativeExperiment.dag.                                *)
(***************************************************************************)
\* variant of InsertByT0: x goes before the elements of equal t0
RECURSIVE InsertByT0_unstable(_, _)
InsertByT0_unstable(sorted, x) ==
    IF sorted = <<>> THEN <<x>>
    ELSE IF LtF(Head(sorted).t0, x.t0)
         THEN <<Head(sorted)>> \o InsertByT0_unstable(Tail(sorted), x)
    ELSE <<x>> \o sorted

\* one step of sorted(..., key=t0): x goes after every element whose t0 is
\* not greater (the sort is stable)
RECURSIVE InsertByT0(_, _)
InsertByT0(sorted, x) ==
    IF sorted = <<>> THEN <<x>>
    ELSE IF LeF(Head(sorted).t0, x.t0) THEN <<Head(sorted)>> \o InsertByT0(Tail(sorted), x)
    ELSE <<x>> \o sorted

RECURSIVE SortedByT0(_)
SortedByT0(instrs) ==
    IF instrs = <<>> THEN <<>>
    ELSE InsertByT0(SortedByT0(SubSeq(instrs, 1, Len(instrs) - 1)), instrs[Len(instrs)])

\* variant of DagAdd: every later instruction of a channel becomes a child of
\* the channel's first node
DagAdd_tofirst(graph, j) ==
    IF j.channel \notin DOMAIN graph.prev_index
    THEN [nodes |-> Append(graph.nodes, j),
          edges |-> graph.edges,
          prev_index |-> (j.channel :> Len(graph.nodes)) @@ graph.prev_index]
    ELSE LET i == graph.nodes[graph.prev_index[j.channel] + 1]
         IN [nodes |-> Append(graph.nodes, j),
             edges |-> graph.edges \cup
                       {[parent |-> graph.prev_index[j.channel],
                         child |-> Len(graph.nodes),
                         edge |-> SubF(j.t0, AddF(i.t0, i.duration))]},
             prev_index |-> graph.prev_index]

\* the loop body: add_node for the first instruction of a channel, add_child
\* with the gap as edge weight for the others (node indices count from 0)
DagAdd(graph, j) ==
    IF j.channel \notin DOMAIN graph.prev_index
    THEN [nodes |-> Append(graph.nodes, j),
          edges |-> graph.edges,
          prev_index |-> (j.channel :> Len(graph.nodes)) @@ graph.prev_index]
    ELSE LET i == graph.nodes[graph.prev_index[j.channel] + 1]
         IN [nodes |-> Append(graph.nodes, j),
             edges |-> graph.edges \cup
                       {[parent |-> graph.prev_index[j.channel],
                         child |-> Len(graph.nodes),
                         edge |-> SubF(j.t0, AddF(i.t0, i.duration))]},
             prev_index |-> (j.channel :> Len(graph.nodes)) @@ graph.prev_index]

NoDag == [nodes |-> <<>>, edges |-> {}, prev_index |-> <<>>]

RECURSIVE DagOver(_, _)
DagOver(graph, sorted) ==
    IF sorted = <<>> THEN graph
    ELSE DagOver(DagAdd(graph, Head(sorted)), Tail(sorted))

(***************************************************************************)
(* Rendering: to_operation of each instruction class.                      *)
(***************************************************************************)
\* f"{pretty_name}-{channel.clock}-{round(t0 * 1e9)}"
unique_name(instruction) ==
    LET pretty_name == CASE instruction.name = "acquire" -> instruction.protocol
                         [] instruction.name = "parametric_pulse" -> instruction.pulse_shape
                         [] OTHER -> instruction.name
    IN <<pretty_name, instruction.channel, instruction.t0[1]>>

OpDefaults == [name |-> <<>>, info |-> "pulse_info", wf_func |-> "None", t0 |-> ZeroF,
               duration |-> ZeroF, clock |-> "", port |-> "None", samples |-> <<>>,
               waveforms |-> 0, acq_index |-> 0, bin_mode |-> "",
               acq_return_type |-> "", protocol |-> ""]

\* Delay, SetFreq, ShiftFreq, SetPhase, ShiftPhase, InitialObject
IdleOperation(self) ==
    [OpDefaults EXCEPT !.name = unique_name(self), !.duration = self.duration,
                       !.clock = self.channel]

\* variant of AcquireOperation: the weights are attached whatever the protocol
AcquireOperation_weights(self, registry) ==
    LET weights == 2
        current_acquisitions ==
            get_acquisitions_at_position(registry[self.channel], self.position)
    IN [OpDefaults EXCEPT !.name = unique_name(self), !.info = "acquisition_info",
                          !.waveforms = weights, !.clock = self.channel,
                          !.port = self.port, !.duration = self.duration,
                          !.acq_index = current_acquisitions - 1,
                          !.bin_mode = self.bin_mode,
                          !.acq_return_type = self.acq_return_type,
                          !.protocol = self.protocol]

\* AcquireInstruction.to_operation (the protocol is one of the two known ones)
AcquireOperation(self, registry) ==
    LET weights == IF self.protocol = "SSBIntegrationComplex" THEN 2 ELSE 0
        current_acquisitions ==
            get_acquisitions_at_position(registry[self.channel], self.position)
    IN [OpDefaults EXCEPT !.name = unique_name(self), !.info = "acquisition_info",
                          !.waveforms = weights, !.clock = self.channel,
                          !.port = self.port, !.duration = self.duration,
                          !.acq_index = current_acquisitions - 1,
                          !.bin_mode = self.bin_mode,
                          !.acq_return_type = self.acq_return_type,
                          !.protocol = self.protocol]

\* waveform *= exp(1j * current_phase): every sample (held as its angle, in
\* phase quanta) is turned by the phase
Rotated(waveform, current_phase) ==
    [n \in 1..Len(waveform) |-> waveform[n] + current_phase]

\* variant of _generate_numerical_pulse: the phase of the whole channel is used
_generate_numerical_pulse_final(channel_instructions, instruction, waveform) ==
    LET current_phase == get_phase_at_position(channel_instructions,
                                               Len(channel_instructions))
    IN [OpDefaults EXCEPT !.name = unique_name(instruction),
                          !.wf_func = "interpolated_complex_waveform",
                          !.samples = Rotated(waveform, current_phase),
                          !.duration = instruction.duration,
                          !.clock = instruction.channel,
                          !.port = instruction.port]

\* _generate_numerical_pulse
_generate_numerical_pulse(channel_instructions, instruction, waveform) ==
    LET current_phase == get_phase_at_position(channel_instructions, instruction.position)
    IN [OpDefaults EXCEPT !.name = unique_name(instruction),
                          !.wf_func = "interpolated_complex_waveform",
                          !.samples = Rotated(waveform, current_phase),
                          !.duration = instruction.duration,
                          !.clock = instruction.channel,
                          !.port = instruction.port]

\* qiskit.pulse.library.discrete: a fresh array of parameters.duration samples
DiscreteSamples(parameters) == [n \in 1..parameters.duration |-> 0]

IsPulseLib(instruction) ==
    instruction.name \notin {"acquire", "delay", "setf", "shiftf", "setp", "fc",
                             "parametric_pulse", "initial_object"}

to_operation(self, library, registry) ==
    CASE self.name = "acquire" -> AcquireOperation(self, registry)
      [] self.name = "parametric_pulse" ->
            _generate_numerical_pulse(registry[self.channel], self,
                                      DiscreteSamples(self.parameters))
      [] IsPulseLib(self) ->
            _generate_numerical_pulse(registry[self.channel], self, library[self.name])
      [] OTHER -> IdleOperation(self)

\* the exception list_from_qobj_inst ends with, or "none":
\* PulseLibInstruction reads config.pulse_library[name] (a KeyError when the
\* name is not in it) after it has looked the channel up
list_from_qobj_inst_raises(qobj_inst, library) ==
    IF IsPulseLib(qobj_inst) /\ qobj_inst.name \notin DOMAIN library
    THEN "KeyError" ELSE "none"

\* variant of to_operation_raises: the KeyError of the library lookup is not
\* caught
to_operation_raises_uncaught(self, library) ==
    CASE self.name = "acquire"
           /\ self.protocol \notin {"SSBIntegrationComplex", "trace"} -> "RuntimeError"
      [] IsPulseLib(self) /\ self.name \notin DOMAIN library -> "KeyError"
      [] OTHER -> "none"

\* variant of to_operation_raises: an Acquire of any protocol is rendered
to_operation_raises_anyprotocol(self, library) ==
    IF IsPulseLib(self) /\ self.name \notin DOMAIN library
    THEN "RuntimeError" ELSE "none"

\* the exception to_operation ends with, or "none": AcquireInstruction raises
\* RuntimeError for a protocol it does not know, PulseLibInstruction turns
\* the KeyError of config.pulse_library[self.name] into a RuntimeError
to_operation_raises(self, library) ==
    CASE self.name = "acquire"
           /\ self.protocol \notin {"SSBIntegrationComplex", "trace"} -> "RuntimeError"
      [] IsPulseLib(self) /\ self.name \notin DOMAIN library -> "RuntimeError"
      [] OTHER -> "none"

(***************************************************************************)
(* Executors: the attributes an executor has after __init__, and the       *)
(* threads calling it.                                                     *)
(***************************************************************************)
Threads == 1..NumThreads

\* QiskitPulse1QExecutor.__init__: shots is set, meas_return is not
QiskitPulse1QExecutor == [class |-> "1Q", shots |-> 1024, meas_return |-> "unset"]

\* QiskitPulse2QExecutor.__init__: neither shots nor meas_return is set
\* (shots 0 and meas_return "unset": the object has no such attribute)
QiskitPulse2QExecutor == [class |-> "2Q", shots |-> 0, meas_return |-> "unset"]

\* a thread that is not inside a call; outcome is what its last call ended with
\* (data: the memory the backend returned to its last run; dataset: what the
\* run returned)
IdleThread == [pc |-> "idle", qobj |-> <<>>, shots |-> 0,
               meas_return |-> "none", outcome |-> "none",
               data |-> <<>>, dataset |-> <<>>]

\* the number of measured qubits of the backend: QiskitPulse1Q, QiskitPulse2Q
NumMeasured(class) == IF class = "1Q" THEN 1 ELSE 2

\* the values the backend may return for one (repetition, qubit): a real and
\* an imaginary part
MemoryPair(repetition, qubit, seed) ==
    <<10 * repetition + qubit + seed, 100 + 10 * repetition + qubit>>

\* result.data()["memory"] at measurement level 1: an array
\* [shots][qubits][2] when the backend ran with meas_return "single",
\* [qubits][2] (the average over the shots) when it ran with "avg"
Memory(class, shots, meas_return, seed) ==
    IF meas_return = "single"
    THEN [meas_return |-> "single",
          array |-> [r \in 1..shots |->
                       [q \in 1..NumMeasured(class) |-> MemoryPair(r, q, seed)]]]
    ELSE [meas_return |-> "avg",
          array |-> [q \in 1..NumMeasured(class) |-> MemoryPair(0, q, seed)]]

\* variant of Complex: the two parts are exchanged
Complex_swapped(real, imag) == [re |-> imag, im |-> real]

\* real + 1j * imag
Complex(real, imag) == [re |-> real, im |-> imag]

\* the name of the data variable of acquisition channel i: f"{i}"
DataVar(i) == <<"0", "1">>[i + 1]

\* np.expand_dims(complex_data, axis=1): every value becomes a row of its own
expand_dims(complex_data) == [r \in 1..Len(complex_data) |-> <<complex_data[r]>>]

\* QiskitPulse1QExecutor.run from result.data() on: the exception it ends
\* with, or "none".  data[:, 0, 0] needs three axes; data[:, 1] on an array
\* of three axes indexes the qubit axis, which has one entry
Run1Q_raises(self, data) ==
    IF self.meas_return = "avg"
    THEN IF data.meas_return = "avg" THEN "none" ELSE "IndexError"
    ELSE IF data.meas_return = "single" THEN "none" ELSE "IndexError"

\* QiskitPulse1QExecutor.run: the dataset built from the memory
Run1Q(self, data) ==
    LET complex_data ==
            IF self.meas_return = "avg"
            THEN [q \in 1..Len(data.array) |->
                    Complex(data.array[q][1], data.array[q][2])]
            ELSE [r \in 1..Len(data.array) |->
                    Complex(data.array[r][1][1], data.array[r][1][2])]
    IN (DataVar(0) :> expand_dims(complex_data))

\* variant of Run2Q_raises: "avg" is not refused
Run2Q_raises_avg(self, data) ==
    IF data.meas_return = "single" THEN "none" ELSE "IndexError"

\* QiskitPulse2QExecutor.run from result.data() on: "avg" is refused before
\* the data are touched, data[:, :, 0] needs three axes
Run2Q_raises(self, data) ==
    IF self.meas_return = "avg" THEN "NotImplementedError"
    ELSE IF data.meas_return = "single" THEN "none" ELSE "IndexError"

\* QiskitPulse2QExecutor.run: one data variable per measured qubit
Run2Q(self, data) ==
    LET num_measured == Len(data.array[1])
        complex_data == [r \in 1..Len(data.array) |->
                           [q \in 1..num_measured |->
                              Complex(data.array[r][q][1], data.array[r][q][2])]]
    IN [k \in {DataVar(i) : i \in 0..(num_measured - 1)} |->
          expand_dims([r \in 1..Len(complex_data) |->
                         complex_data[r][IF k = "0" THEN 1 ELSE 2]])]

NoCalls ==
    /\ threads = [t \in Threads |-> IdleThread]
    /\ ex_log = [calls |-> 0, constructed |-> 0, backend_runs |-> 0, closed |-> FALSE]

\* the process right after the import of the modules: the channel that is the
\* default argument of InitialObjectInstruction.__init__ exists and is empty,
\* and nothing has been compiled
FreshProcess == process = [default_channel |-> <<>>, compiled |-> <<>>]

(***************************************************************************)
(* The services around the compiler: the logfile upload of the REST API,   *)
(* the post-processing worker and the calibration procedures.              *)
(***************************************************************************)
\* the job ids: Path(upload_file.filename).stem of the uploaded logfiles
JobIds == {"j1", "j2"}

\* nothing has been uploaded, the worker is idle, no calibration has started
NoUploads ==
    /\ supervisor = [job_id \in JobIds |-> [cancelled |-> FALSE, locations |-> <<>>]]
    /\ storage = [upload_pool |-> {}, download_pool |-> {}]
    /\ rq_logfile_postprocessing.enqueued = <<>>
    /\ rq_logfile_postprocessing.started = 0
    /\ DOMAIN rq_logfile_postprocessing = {"is_async", "enqueued", "started"}
    /\ requests = [job_id \in JobIds |-> "none"]
    /\ worker = [pc |-> "idle", logfile |-> ""]

NoCalibration ==
    /\ calibration = [pc |-> "idle", procedure |-> "", job_id |-> 0,
                      requested_job_id |-> 0, event |-> FALSE, requested |-> 0,
                      accepted |-> {}]
    /\ red = [results |-> {}, reported |-> {}, params |-> <<>>]

\* the services as the compiler's model leaves them
NoService ==
    /\ rq_logfile_postprocessing = [is_async |-> TRUE, enqueued |-> <<>>, started |-> 0]
    /\ NoUploads
    /\ NoCalibration

(***************************************************************************)
(* The aligner on its own: _map_to_qblox_timegrid applied to n * 1e-9 and  *)
(* then to its own result.                                                 *)
(***************************************************************************)
\* the NativeQobjConfig of a job: protocol is a MeasProtocol, with the bin
\* mode and the return type of the acquisitions
NativeConfigs ==
    { [protocol |-> "SSBIntegrationComplex", bin_mode |-> "average",
       acq_return_type |-> "complex"],
      [protocol |-> "trace", bin_mode |-> "append", acq_return_type |-> "ndarray"] }

InitJob ==
    /\ native_config \in NativeConfigs
    /\ pulse_library = [n \in {"wf0"} |-> <<0, 0, 0, 0, 0>>]
    /\ wire = <<>>
    /\ channel_registry = <<>>
    /\ instructions = <<>>
    /\ next_label = 0
    /\ dag = NoDag
    /\ operations = <<>>
    /\ pc = "decoding"
    /\ error = "none"

InitAlign ==
    /\ al_raw \in (0 - MaxRaw)..MaxRaw
    /\ al_out = <<>>
    /\ InitJob
    /\ NoCalls
    /\ FreshProcess
    /\ NoService
    /\ executor = QiskitPulse1QExecutor
    /\ native_config.protocol = "trace"

\* raw_time = al_raw * 1e-9 is aligned
ApplyAlign ==
    /\ al_out = <<>>
    /\ al_out' = <<AlignNs(al_raw)>>
    /\ UNCHANGED <<al_raw, jobvars, exvars, process, svcvars>>

\* the aligned value is aligned again
ReapplyAlign ==
    /\ Len(al_out) = 1
    /\ al_out' = Append(al_out, _map_to_qblox_timegrid(al_out[1], QBLOX_TIMEGRID_INTERVAL))
    /\ UNCHANGED <<al_raw, jobvars, exvars, process, svcvars>>

NextAlign == ApplyAlign \/ ReapplyAlign

SpecAlign == InitAlign /\ [][NextAlign]_vars

(***************************************************************************)
(* One compilation pass: decode the job's wire instructions one by one,    *)
(* assemble the schedule, render the instructions.                         *)
(***************************************************************************)
Init ==
    /\ al_raw = 0
    /\ al_out = <<>>
    /\ InitJob
    /\ native_config.protocol = "SSBIntegrationComplex"
    /\ NoCalls
    /\ FreshProcess
    /\ NoService
    /\ executor = QiskitPulse1QExecutor

\* the next wire instruction of the job is decoded: its native instructions
\* are constructed, registered and added to the experiment's list
Decode(qobj_inst) ==
    /\ pc = "decoding"
    /\ Len(wire) < MaxInstr
    /\ IF list_from_qobj_inst_raises(qobj_inst, pulse_library) # "none"
       THEN /\ channel_registry' = RegistryCreate(channel_registry, qobj_inst.ch)
            /\ error' = list_from_qobj_inst_raises(qobj_inst, pulse_library)
            /\ pc' = "failed"
            /\ UNCHANGED <<instructions, next_label>>
       ELSE LET built == Construct(ListFromQobjInst(qobj_inst, native_config,
                                                    pulse_library),
                                   channel_registry, next_label)
            IN /\ channel_registry' = built.registry
               /\ instructions' = instructions \o built.created
               /\ next_label' = next_label + Len(built.created)
               /\ UNCHANGED <<pc, error>>
    /\ wire' = Append(wire, qobj_inst)
    /\ UNCHANGED <<alvars, exvars, process, svcvars, native_config, pulse_library, dag,
                   operations>>

\* NativeExperiment.dag is computed (and cached)
Assemble ==
    /\ pc = "decoding"
    /\ dag' = DagOver(NoDag, SortedByT0(instructions))
    /\ pc' = "assembled"
    /\ UNCHANGED <<alvars, exvars, process, svcvars, native_config, pulse_library, wire,
                   channel_registry,
                   instructions, next_label, operations, error>>

\* variant of Render: the instructions are rendered from the last to the first
Render_reverse ==
    /\ pc = "assembled"
    /\ Len(operations) < Len(instructions)
    /\ LET self == instructions[Len(instructions) - Len(operations)]
           operation == to_operation(self, pulse_library, channel_registry)
       IN IF to_operation_raises(self, pulse_library) # "none"
          THEN /\ error' = to_operation_raises(self, pulse_library)
               /\ pc' = "failed"
               /\ UNCHANGED <<operations, pulse_library>>
          ELSE /\ operations' = Append(operations, operation)
               /\ pulse_library' = IF IsPulseLib(self)
                                   THEN [pulse_library EXCEPT
                                           ![self.name] = operation.samples]
                                   ELSE pulse_library
               /\ UNCHANGED <<pc, error>>
    /\ UNCHANGED <<alvars, exvars, process, svcvars, native_config, wire, channel_registry,
                   instructions,
                   next_label, dag>>

\* the next instruction is rendered; a library pulse is rotated in the
\* library's own sample array
Render ==
    /\ pc = "assembled"
    /\ Len(operations) < Len(instructions)
    /\ LET self == instructions[Len(operations) + 1]
           operation == to_operation(self, pulse_library, channel_registry)
       IN IF to_operation_raises(self, pulse_library) # "none"
          THEN /\ error' = to_operation_raises(self, pulse_library)
               /\ pc' = "failed"
               /\ UNCHANGED <<operations, pulse_library>>
          ELSE /\ operations' = Append(operations, operation)
               /\ pulse_library' = IF IsPulseLib(self)
                                   THEN [pulse_library EXCEPT
                                           ![self.name] = operation.samples]
                                   ELSE pulse_library
               /\ UNCHANGED <<pc, error>>
    /\ UNCHANGED <<alvars, exvars, process, svcvars, native_config, wire, channel_registry,
                   instructions,
                   next_label, dag>>

Next ==
    \/ \E qobj_inst \in WireInstructions : Decode(qobj_inst)
    \/ Assemble
    \/ Render

Spec == Init /\ [][Next]_vars

(***************************************************************************)
(* The instruction classes used directly: instructions are constructed     *)
(* from keyword arguments of the caller's choice (or decoded), assembled   *)
(* and rendered.                                                           *)
(***************************************************************************)
\* a protocol of quantify-scheduler that AcquireInstruction does not know
UnknownProtocol == "ThresholdedAcquisition"

\* AcquireInstruction(...) on m0 with any protocol, PulseLibInstruction(...)
\* on d0 under a name the library holds (wf0) or does not hold (wf1)
DirectKwargs(config) ==
    { [InstrDefaults EXCEPT !.name = "acquire", !.channel = "m0", !.port = "m0",
                            !.duration = AlignNs(40), !.protocol = protocol,
                            !.acq_return_type = config.acq_return_type,
                            !.bin_mode = config.bin_mode] :
        protocol \in {"SSBIntegrationComplex", "trace", UnknownProtocol} }
    \cup { [InstrDefaults EXCEPT !.name = name, !.channel = "d0", !.port = "d0",
                                 !.duration = AlignNs(5)] : name \in {"wf0", "wf1"} }

\* cls(**kwargs): the instruction is built and registered on its channel
ConstructDirect(kwargs) ==
    /\ pc = "decoding"
    /\ Len(instructions) < MaxInstr
    /\ LET built == Construct(<<kwargs>>, channel_registry, next_label)
       IN /\ channel_registry' = built.registry
          /\ instructions' = instructions \o built.created
          /\ next_label' = next_label + 1
    /\ UNCHANGED <<alvars, exvars, process, svcvars, native_config, pulse_library, wire, dag,
                   operations,
                   pc, error>>

NextDirect ==
    \/ \E kwargs \in DirectKwargs(native_config) : ConstructDirect(kwargs)
    \/ \E qobj_inst \in WireAcquires \cup WireUnknownPulses :
           Len(instructions) < MaxInstr /\ Decode(qobj_inst)
    \/ Assemble
    \/ Render

\* a job of either protocol
InitDirect ==
    /\ al_raw = 0
    /\ al_out = <<>>
    /\ InitJob
    /\ NoCalls
    /\ FreshProcess
    /\ NoService
    /\ executor = QiskitPulse1QExecutor

SpecDirect == InitDirect /\ [][NextDirect]_vars

(***************************************************************************)
(* construct_schedule as a whole: the pass above, then the schedule is      *)
(* returned, and a returned schedule may be run.                            *)
(***************************************************************************)
\* every instruction has been rendered: the schedule (the operations) is
\* returned to the caller
Return ==
    /\ pc = "assembled"
    /\ Len(operations) = Len(instructions)
    /\ pc' = "returned"
    /\ UNCHANGED <<alvars, exvars, process, svcvars, native_config, pulse_library, wire,
                   channel_registry, instructions, next_label, dag, operations, error>>

\* run: the returned schedule is dispatched to the backend
Dispatch ==
    /\ pc = "returned"
    /\ pc' = "dispatched"
    /\ ex_log' = [ex_log EXCEPT !.backend_runs = @ + 1]
    /\ UNCHANGED <<alvars, executor, threads, process, svcvars, native_config, pulse_library,
                   wire, channel_registry, instructions, next_label, dag, operations,
                   error>>

NextSchedule ==
    \/ NextDirect
    \/ Return
    \/ Dispatch

SpecSchedule == InitDirect /\ [][NextSchedule]_vars

(***************************************************************************)
(* One Python process compiling the same job descriptor several times:     *)
(* every pass has a registry of its own, the descriptor (its pulse_library *)
(* arrays) and the default arguments of the constructors are the same      *)
(* objects in every pass.                                                  *)
(***************************************************************************)
\* InitialObjectInstruction(): name "initial_object", t0 = 0.0, duration = 0.0
\* and the default channel QuantifyChannel(clock="cl0.baseband")
InitialObjectKwargs ==
    [InstrDefaults EXCEPT !.name = "initial_object", !.channel = "cl0.baseband",
                          !.t0 = ZeroF, !.duration = ZeroF]

\* InitialObjectInstruction() called without a channel: the instruction is
\* registered on the channel object made when the function was defined
ConstructInitialObject ==
    /\ pc = "decoding"
    /\ Len(instructions) < MaxInstr
    /\ LET self == BaseInstructionInit(InitialObjectKwargs, process.default_channel,
                                       next_label)
       IN /\ process' = [process EXCEPT
                           !.default_channel = RegisterAppend(@, self)]
          /\ instructions' = Append(instructions, self)
          /\ next_label' = next_label + 1
    /\ UNCHANGED <<alvars, exvars, svcvars, native_config, pulse_library, wire,
                   channel_registry, dag, operations, pc, error>>

\* the same descriptor is compiled again: a new registry and a new
\* experiment, the same PulseQobjConfig
Recompile ==
    /\ pc = "returned"
    /\ Len(process.compiled) + 1 < MaxPasses
    /\ process' = [process EXCEPT
                     !.compiled = Append(@, [wire |-> wire,
                                             instructions |-> instructions,
                                             operations |-> operations])]
    /\ wire' = <<>>
    /\ channel_registry' = <<>>
    /\ instructions' = <<>>
    /\ dag' = NoDag
    /\ operations' = <<>>
    /\ pc' = "decoding"
    /\ UNCHANGED <<alvars, exvars, svcvars, native_config, pulse_library, next_label,
                   error>>

\* the wire instructions of the descriptors compiled more than once
ProcessWire ==
    WirePhases \cup WireFrequencies
    \cup { [WireDefaults EXCEPT !.name = "wf0", !.ch = "d0"],
           [WireDefaults EXCEPT !.name = "parametric_pulse", !.ch = "d0",
                                !.parameters = [duration |-> 3],
                                !.pulse_shape = "constant"],
           [WireDefaults EXCEPT !.name = "delay", !.ch = "m0", !.duration = 3],
           [WireDefaults EXCEPT !.name = "acquire", !.ch = "m0", !.duration = 40,
                                !.qubits = <<0>>, !.memory_slot = <<0>>] }

\* the first compilation of the descriptor, once it is being compiled again
FirstCompiled == process.compiled[1]

\* a later pass makes the constructions of the first pass, in the same order
MayConstruct(initial_object, qobj_inst) ==
    IF process.compiled = <<>> THEN TRUE
    ELSE IF Len(instructions) >= Len(FirstCompiled.instructions) THEN FALSE
    ELSE IF FirstCompiled.instructions[Len(instructions) + 1].name = "initial_object"
         THEN initial_object
    ELSE /\ ~ initial_object
         /\ Len(wire) < Len(FirstCompiled.wire)
         /\ qobj_inst = FirstCompiled.wire[Len(wire) + 1]

\* a later pass is assembled once it has made all of them
MayAssemble ==
    IF process.compiled = <<>> THEN TRUE
    ELSE Len(instructions) = Len(FirstCompiled.instructions)

NextProcess ==
    \/ MayConstruct(TRUE, WireDefaults) /\ ConstructInitialObject
    \/ \E qobj_inst \in ProcessWire :
           /\ MayConstruct(FALSE, qobj_inst)
           /\ Len(instructions) < MaxInstr
           /\ Decode(qobj_inst)
    \/ MayAssemble /\ Assemble
    \/ Render
    \/ Return
    \/ Recompile

SpecProcess == Init /\ [][NextProcess]_vars

(***************************************************************************)
(* Jobs whose instructions start off the grid: Delays of two channels with *)
(* start times and durations of any whole number of nanoseconds, decoded   *)
(* and assembled.                                                          *)
(***************************************************************************)
GridT0s == {0, 1, 4, 5}

GridDurations == {3, 4}

GridWire ==
    { [WireDefaults EXCEPT !.name = "delay", !.ch = ch, !.t0 = t, !.duration = d] :
        ch \in {"d0", "d1"}, t \in GridT0s, d \in GridDurations }

NextGrid ==
    \/ \E qobj_inst \in GridWire : Decode(qobj_inst)
    \/ Assemble

SpecGrid == Init /\ [][NextGrid]_vars

(***************************************************************************)
(* One executor and the threads that call construct_experiments, run and   *)
(* close on it.  A call is a sequence of steps; a thread is inside at most *)
(* one call.                                                               *)
(***************************************************************************)
\* the PulseQobj handed to construct_experiments: config.shots,
\* config.meas_return, and whether transpile accepts it
Qobjs == [shots : {1, 2}, meas_return : {"avg", "single"}, valid : BOOLEAN]

InitExecutor ==
    /\ al_raw = 0
    /\ al_out = <<>>
    /\ InitJob
    /\ native_config.protocol = "trace"
    /\ NoCalls
    /\ FreshProcess
    /\ NoService
    /\ executor \in {QiskitPulse1QExecutor, QiskitPulse2QExecutor}

\* construct_experiments up to the call of transpile: self.shots and
\* self.meas_return are set from the qobj's config
ConstructBegin(t, qobj) ==
    /\ threads[t].pc = "idle"
    /\ ex_log.calls < MaxCalls
    /\ executor' = [executor EXCEPT !.shots = qobj.shots,
                                    !.meas_return = qobj.meas_return]
    /\ threads' = [threads EXCEPT ![t] = [IdleThread EXCEPT !.pc = "transpile",
                                                            !.qobj = qobj]]
    /\ ex_log' = [ex_log EXCEPT !.calls = @ + 1]
    /\ UNCHANGED <<alvars, jobvars, process, svcvars>>

\* transpile returns the experiments (the caller holds them: qobj stays in
\* its record), or raises on a qobj it does not accept
ConstructEnd(t) ==
    /\ threads[t].pc = "transpile"
    /\ IF threads[t].qobj.valid
       THEN /\ threads' = [threads EXCEPT
                             ![t] = [IdleThread EXCEPT !.outcome = "tx",
                                                       !.qobj = threads[t].qobj]]
            /\ ex_log' = [ex_log EXCEPT !.constructed = @ + 1]
       ELSE /\ threads' = [threads EXCEPT
                             ![t] = [IdleThread EXCEPT !.outcome = "TranspileError"]]
            /\ ex_log' = ex_log
    /\ UNCHANGED <<alvars, jobvars, process, svcvars, executor>>

\* run up to self.backend.run(experiment, shots=self.shots,
\* meas_return=self.meas_return): an attribute that was never set raises
\* AttributeError while the arguments are evaluated, otherwise the round
\* trip to the backend starts.  The experiment is the one the caller holds
\* (constructed from threads[t].qobj), if it holds one
RunBegin(t) ==
    /\ threads[t].pc = "idle"
    /\ ex_log.calls < MaxCalls
    /\ IF executor.shots = 0 \/ executor.meas_return = "unset"
       THEN /\ threads' = [threads EXCEPT
                             ![t] = [IdleThread EXCEPT !.outcome = "AttributeError"]]
            /\ ex_log' = [ex_log EXCEPT !.calls = @ + 1]
       ELSE /\ threads' = [threads EXCEPT
                             ![t] = [IdleThread EXCEPT
                                       !.pc = "backend",
                                       !.qobj = threads[t].qobj,
                                       !.shots = executor.shots,
                                       !.meas_return = executor.meas_return]]
            /\ ex_log' = [ex_log EXCEPT !.calls = @ + 1, !.backend_runs = @ + 1]
    /\ UNCHANGED <<alvars, jobvars, process, svcvars, executor>>

\* the values the backend's memory may be filled with
Seeds == {0, 1}

\* job.result() has returned the memory of a run with the shots and the
\* meas_return the backend was given: the data are shaped according to
\* self.meas_return as it is now
RunEnd(t) ==
    /\ threads[t].pc = "backend"
    /\ \E seed \in Seeds :
          LET data == Memory(executor.class, threads[t].shots,
                             threads[t].meas_return, seed)
              raises == IF executor.class = "1Q" THEN Run1Q_raises(executor, data)
                        ELSE Run2Q_raises(executor, data)
              ran == [IdleThread EXCEPT !.qobj = threads[t].qobj,
                                        !.shots = threads[t].shots,
                                        !.meas_return = threads[t].meas_return,
                                        !.data = data]
          IN threads' = [threads EXCEPT
                           ![t] = IF raises # "none"
                                  THEN [ran EXCEPT !.outcome = raises]
                                  ELSE [ran EXCEPT
                                          !.outcome = "dataset",
                                          !.dataset =
                                              IF executor.class = "1Q"
                                              THEN Run1Q(executor, data)
                                              ELSE Run2Q(executor, data)]]
    /\ UNCHANGED <<alvars, jobvars, process, svcvars, executor, ex_log>>

\* close(): pass
Close(t) ==
    /\ threads[t].pc = "idle"
    /\ ex_log.calls < MaxCalls
    /\ threads' = [threads EXCEPT ![t] = IdleThread]
    /\ ex_log' = [ex_log EXCEPT !.calls = @ + 1, !.closed = TRUE]
    /\ UNCHANGED <<alvars, jobvars, process, svcvars, executor>>

NextExecutor ==
    \E t \in Threads :
        \/ \E qobj \in Qobjs : ConstructBegin(t, qobj)
        \/ ConstructEnd(t)
        \/ RunBegin(t)
        \/ RunEnd(t)
        \/ Close(t)

SpecExecutor == InitExecutor /\ [][NextExecutor]_vars

(***************************************************************************)
(* The logfile upload: the upload_logfile handler of the REST API (one     *)
(* request per logfile, served in a thread of its own), cancel_job, and    *)
(* the worker that runs logfile_postprocess for the enqueued tasks.        *)
(***************************************************************************)
\* Location.PST_PROC_Q, Location.PST_PROC_W
PST_PROC_Q == "PST_PROC_Q"

PST_PROC_W == "PST_PROC_W"

\* variant of upload_halts: the cancellation label is not looked at
upload_halts_never(status) == FALSE

\* if status["cancelled"]["time"]: the handler returns at once
upload_halts(status) == status.cancelled

\* inform_location(job_id, location): the supervisor is told where the job is
inform_location(job_id, location) ==
    [supervisor EXCEPT ![job_id].locations = Append(@, location)]

\* logfile.replace(new_file): from the upload pool to the download pool
MoveLogfile(logfile) ==
    [upload_pool |-> storage.upload_pool \ {logfile},
     download_pool |-> storage.download_pool \cup {logfile}]

\* the queue of the service is asynchronous (workers take the tasks) or
\* synchronous (enqueue runs the task itself before it returns)
InitLogfile ==
    /\ al_raw = 0
    /\ al_out = <<>>
    /\ InitJob
    /\ native_config.protocol = "trace"
    /\ NoCalls
    /\ FreshProcess
    /\ executor = QiskitPulse1QExecutor
    /\ rq_logfile_postprocessing \in [is_async : BOOLEAN, enqueued : {<<>>},
                                      started : {0}]
    /\ NoUploads
    /\ NoCalibration

\* POST /jobs/{job_id}/cancel: the job is labelled cancelled
cancel_job(job_id) ==
    /\ ~ supervisor[job_id].cancelled
    /\ supervisor' = [supervisor EXCEPT ![job_id].cancelled = TRUE]
    /\ UNCHANGED <<alvars, jobvars, exvars, process, storage,
                   rq_logfile_postprocessing, requests, worker, calibration, red>>

\* upload_logfile up to the test of the cancellation label
UploadCheck(file_name) ==
    /\ requests[file_name] = "none"
    /\ requests' = [requests EXCEPT
                      ![file_name] = IF upload_halts(supervisor[file_name])
                                     THEN "halted" ELSE "store"]
    /\ UNCHANGED <<alvars, jobvars, exvars, process, supervisor, storage,
                   rq_logfile_postprocessing, worker, calibration, red>>

\* the received file is stored in the logfile upload pool
UploadStore(file_name) ==
    /\ requests[file_name] = "store"
    /\ storage' = [storage EXCEPT !.upload_pool = @ \cup {file_name}]
    /\ requests' = [requests EXCEPT ![file_name] = "enqueue"]
    /\ UNCHANGED <<alvars, jobvars, exvars, process, supervisor,
                   rq_logfile_postprocessing, worker, calibration, red>>

\* logfile_postprocess is enqueued; a synchronous queue runs it here, up to
\* its return
UploadEnqueue(file_name) ==
    /\ requests[file_name] = "enqueue"
    /\ requests' = [requests EXCEPT ![file_name] = "inform"]
    /\ IF rq_logfile_postprocessing.is_async
       THEN /\ rq_logfile_postprocessing' =
                  [rq_logfile_postprocessing EXCEPT !.enqueued = Append(@, file_name)]
            /\ UNCHANGED <<storage, supervisor>>
       ELSE /\ rq_logfile_postprocessing' =
                  [rq_logfile_postprocessing EXCEPT !.enqueued = Append(@, file_name),
                                                    !.started = @ + 1]
            /\ storage' = MoveLogfile(file_name)
            /\ supervisor' = inform_location(file_name, PST_PROC_W)
    /\ UNCHANGED <<alvars, jobvars, exvars, process, worker, calibration, red>>

\* inform supervisor: the job is queued for post-processing
UploadInform(file_name) ==
    /\ requests[file_name] = "inform"
    /\ supervisor' = inform_location(file_name, PST_PROC_Q)
    /\ requests' = [requests EXCEPT ![file_name] = "done"]
    /\ UNCHANGED <<alvars, jobvars, exvars, process, storage,
                   rq_logfile_postprocessing, worker, calibration, red>>

\* the worker takes the oldest task that has not been started
WorkerTake ==
    /\ worker.pc = "idle"
    /\ rq_logfile_postprocessing.is_async
    /\ rq_logfile_postprocessing.started < Len(rq_logfile_postprocessing.enqueued)
    /\ worker' = [pc |-> "move",
                  logfile |-> rq_logfile_postprocessing.enqueued[
                                  rq_logfile_postprocessing.started + 1]]
    /\ rq_logfile_postprocessing' =
           [rq_logfile_postprocessing EXCEPT !.started = @ + 1]
    /\ UNCHANGED <<alvars, jobvars, exvars, process, supervisor, storage, requests,
                   calibration, red>>

\* logfile_postprocess: the logfile is moved to the download pool
WorkerMove ==
    /\ worker.pc = "move"
    /\ storage' = MoveLogfile(worker.logfile)
    /\ worker' = [worker EXCEPT !.pc = "inform"]
    /\ UNCHANGED <<alvars, jobvars, exvars, process, supervisor,
                   rq_logfile_postprocessing, requests, calibration, red>>

\* logfile_postprocess: the supervisor is told, the task runs to its end
WorkerInform ==
    /\ worker.pc = "inform"
    /\ supervisor' = inform_location(worker.logfile, PST_PROC_W)
    /\ worker' = [pc |-> "idle", logfile |-> ""]
    /\ UNCHANGED <<alvars, jobvars, exvars, process, storage,
                   rq_logfile_postprocessing, requests, calibration, red>>

NextLogfile ==
    \/ \E job_id \in JobIds : cancel_job(job_id)
    \/ \E file_name \in JobIds :
           \/ UploadCheck(file_name)
           \/ UploadStore(file_name)
           \/ UploadEnqueue(file_name)
           \/ UploadInform(file_name)
    \/ WorkerTake
    \/ WorkerMove
    \/ WorkerInform

SpecLogfile == InitLogfile /\ [][NextLogfile]_vars

(***************************************************************************)
(* The calibration procedures: check_dummy and calibrate_dummy request a   *)
(* job with request_job and then read its post-processing results; the     *)
(* job-done message of a finished job sets job_done_evt.event when it      *)
(* carries the requested job id.                                           *)
(***************************************************************************)
Procedures == {"check_dummy", "calibrate_dummy"}

\* check_dummy / calibrate_dummy up to the POST of request_job: a new job is
\* made, job_done_evt.requested_job_id is set and the job is sent; the
\* service accepts it or not
PostJob(procedure, accept) ==
    /\ calibration.pc = "idle"
    /\ calibration.requested < MaxJobs
    /\ calibration' =
           [calibration EXCEPT
              !.pc = "posting",
              !.procedure = procedure,
              !.job_id = calibration.requested + 1,
              !.requested_job_id = calibration.requested + 1,
              !.requested = @ + 1,
              !.accepted = IF accept THEN @ \cup {calibration.requested + 1} ELSE @]
    /\ UNCHANGED <<alvars, jobvars, exvars, process, supervisor, storage,
                   rq_logfile_postprocessing, requests, worker, red>>

\* requests.post returns: on a response that is not ok request_job prints
\* "request_job failed" and returns, otherwise it goes on to wait
PostResponse ==
    /\ calibration.pc = "posting"
    /\ calibration' =
           [calibration EXCEPT
              !.pc = IF calibration.job_id \in calibration.accepted
                     THEN "waiting" ELSE "returned"]
    /\ UNCHANGED <<alvars, jobvars, exvars, process, supervisor, storage,
                   rq_logfile_postprocessing, requests, worker, red>>

\* an accepted job has been executed and post-processed: its result is in
\* Redis and the job is reported done; the message sets the event when it
\* carries the requested job id
JobDone(job_id) ==
    /\ job_id \in calibration.accepted
    /\ job_id \notin red.reported
    /\ red' = [red EXCEPT !.results = @ \cup {job_id}, !.reported = @ \cup {job_id}]
    /\ calibration' =
           [calibration EXCEPT
              !.event = IF job_id = calibration.requested_job_id THEN TRUE ELSE @]
    /\ UNCHANGED <<alvars, jobvars, exvars, process, supervisor, storage,
                   rq_logfile_postprocessing, requests, worker>>

\* await job_done_evt.event.wait() returns, the event is cleared and
\* request_job returns
AwaitJobDone ==
    /\ calibration.pc = "waiting"
    /\ calibration.event
    /\ calibration' = [calibration EXCEPT !.pc = "returned", !.event = FALSE]
    /\ UNCHANGED <<alvars, jobvars, exvars, process, supervisor, storage,
                   rq_logfile_postprocessing, requests, worker, red>>

\* red.get(f"postproc:results:{job_id}"): None when there is no such key
PostprocResult(job_id) == IF job_id \in red.results THEN "result" ELSE "None"

\* after request_job: the result of the job is read; calibrate_dummy writes
\* it as the value of the calibration parameter ("not found" for None)
ReadResult ==
    /\ calibration.pc = "returned"
    /\ calibration' = [calibration EXCEPT !.pc = "idle"]
    /\ red' = IF calibration.procedure = "calibrate_dummy"
              THEN [red EXCEPT
                      !.params =
                          Append(@, [job_id |-> calibration.job_id,
                                     value |->
                                         IF PostprocResult(calibration.job_id) = "None"
                                         THEN "not found"
                                         ELSE PostprocResult(calibration.job_id)])]
              ELSE red
    /\ UNCHANGED <<alvars, jobvars, exvars, process, supervisor, storage,
                   rq_logfile_postprocessing, requests, worker>>

NextCalibration ==
    \/ \E procedure \in Procedures, accept \in BOOLEAN : PostJob(procedure, accept)
    \/ PostResponse
    \/ \E job_id \in 1..MaxJobs : JobDone(job_id)
    \/ AwaitJobDone
    \/ ReadResult

SpecCalibration == Init /\ [][NextCalibration]_vars

(***************************************************************************)
(* Properties.                                                             *)
(***************************************************************************)
IsPulse(instruction) == instruction.name = "parametric_pulse" \/ IsPulseLib(instruction)

IsPhaseInstr(instruction) == instruction.name \in {"setp", "fc"}

\* the instruction list of the channel an instruction is registered on
ChannelOf(instruction) == channel_registry[instruction.channel]

\* the sample array handed to _generate_numerical_pulse for a pulse
InputWaveform(instruction) ==
    IF IsPulseLib(instruction) THEN pulse_library[instruction.name]
    ELSE DiscreteSamples(instruction.parameters)

\* this step renders instructions[Len(operations')]
RenderStep == Len(operations') = Len(operations) + 1

RECURSIVE SumShifts(_, _, _)
SumShifts(list, from, to) ==
    IF from > to THEN 0
    ELSE (IF list[to].name = "fc" THEN list[to].phase ELSE 0) + SumShifts(list, from, to - 1)

\* the phase the instructions at positions 0..p-1 leave behind: the target of
\* the last SetPhase among them (0 if none) plus the shifts after it
PhaseBefore(list, p) ==
    LET setps == {i \in 1..p : list[i].name = "setp"}
        last == IF setps = {} THEN 0 ELSE CHOOSE i \in setps : \A k \in setps : k <= i
    IN (IF last = 0 THEN 0 ELSE list[last].phase) + SumShifts(list, last + 1, p)

\* the number of Acquire instructions at positions 0..p-1
AcquiresBefore(list, p) == Cardinality({i \in 1..p : list[i].name = "acquire"})

PhaseUsedIsPrefixPhase ==
    LET self == instructions[Len(operations')]
    IN IsPulse(self) =>
         operations'[Len(operations')].samples
           = Rotated(InputWaveform(self), PhaseBefore(ChannelOf(self), self.position))

\* C1 as stated: the phase and the acquisition count used to render the
\* instruction at position p are the ordered sums of the contributions of
\* positions 0..p-1 only, the instruction's own contribution excluded.
C1_Original ==
    [][RenderStep =>
         /\ PhaseUsedIsPrefixPhase
         /\ LET self == instructions[Len(operations')]
            IN self.name = "acquire" =>
                 operations'[Len(operations')].acq_index + 1
                   = AcquiresBefore(ChannelOf(self), self.position)]_vars

\* C1 amended: the phase used to render the instruction at position p is the
\* ordered sum of the phase contributions of positions 0..p-1 only, whatever
\* is registered at p and above; the acquisition count used to render an
\* Acquire at position p is the count of positions 0..p, its own included.
C1_StateAtPosition ==
    [][RenderStep =>
         /\ PhaseUsedIsPrefixPhase
         /\ LET self == instructions[Len(operations')]
            IN self.name = "acquire" =>
                 operations'[Len(operations')].acq_index + 1
                   = AcquiresBefore(ChannelOf(self), self.position) + 1]_vars

\* a pulse was rendered with a non-zero phase from the instructions below it
\* while a phase instruction is registered above it on the same channel
C1_Witness ==
    \E n \in 1..Len(operations) :
        /\ IsPulse(instructions[n])
        /\ PhaseBefore(ChannelOf(instructions[n]), instructions[n].position) # 0
        /\ \E i \in (instructions[n].position + 2)..Len(ChannelOf(instructions[n])) :
               IsPhaseInstr(ChannelOf(instructions[n])[i])

\* C2: on every channel the rendered Acquire instructions carry as acq_index
\* their 0-based ordinal among the channel's acquisitions in position order
\* (so 0, 1, ..., k-1: never negative, never repeated), whatever other
\* instructions are interleaved.
C2_AcqIndexIsOrdinal ==
    \A n \in 1..Len(operations) :
        instructions[n].name = "acquire" =>
            operations[n].acq_index
              = AcquiresBefore(ChannelOf(instructions[n]), instructions[n].position)

\* a channel holding Acquire, Delay, Acquire whose acquisitions were rendered
\* with indices 0 and 1
C2_Witness ==
    /\ Len(operations) = Len(instructions)
    /\ \E clock \in DOMAIN channel_registry :
          /\ Len(channel_registry[clock]) = 3
          /\ channel_registry[clock][1].name = "acquire"
          /\ channel_registry[clock][2].name = "delay"
          /\ channel_registry[clock][3].name = "acquire"
          /\ \E m, n \in 1..Len(operations) :
                /\ instructions[m] = channel_registry[clock][1]
                /\ instructions[n] = channel_registry[clock][3]
                /\ operations[m].acq_index = 0
                /\ operations[n].acq_index = 1

C4_PositionIsRegistrationOrder ==
    [][/\ \A clock \in DOMAIN channel_registry' :
             \A i \in 1..Len(channel_registry'[clock]) :
                 channel_registry'[clock][i].position = i - 1
       /\ \A n \in 1..Len(instructions') :
             /\ instructions'[n].position < Len(channel_registry'[instructions'[n].channel])
             /\ channel_registry'[instructions'[n].channel][instructions'[n].position + 1]
                  = instructions'[n]
       /\ \A clock \in DOMAIN channel_registry :
             /\ clock \in DOMAIN channel_registry'
             /\ Len(channel_registry[clock]) <= Len(channel_registry'[clock])
             /\ SubSeq(channel_registry'[clock], 1, Len(channel_registry[clock]))
                  = channel_registry[clock]]_vars

\* three instructions are registered on one channel
C4_Witness ==
    \E clock \in DOMAIN channel_registry : Len(channel_registry[clock]) = 3

\* x is a whole non-negative multiple of the grid interval: n * 4e-9 in double
\* arithmetic for some n, or an exact multiple of the double 4e-9
OnGrid(x) ==
    /\ x[1] >= 0
    /\ x[1] % 4 = 0
    /\ (x = RoundF(x[1], 0) \/ x[2] = 0)

\* C5: every native instruction produced by decoding has a t0 and a duration
\* that are non-negative multiples of the grid interval.
C5_TimesOnGrid ==
    \A n \in 1..Len(instructions) :
        OnGrid(instructions[n].t0) /\ OnGrid(instructions[n].duration)

\* C6: for raw_time >= 0 the aligned time is at least raw_time and exceeds it
\* by strictly less than the grid interval.
C6_AlignBounded ==
    (al_raw >= 0 /\ Len(al_out) >= 1) =>
        /\ LeF(TimesNano(al_raw), al_out[1])
        /\ LtF(<<al_out[1][1] - TimesNano(al_raw)[1], al_out[1][2] - TimesNano(al_raw)[2]>>,
               QBLOX_TIMEGRID_INTERVAL)

\* C7: aligning an aligned time changes nothing, and 0 is aligned to 0.
C7_AlignIdempotent ==
    /\ (al_raw >= 0 /\ Len(al_out) = 2) => al_out[2] = al_out[1]
    /\ (al_raw = 0 /\ Len(al_out) >= 1) => al_out[1] = ZeroF

\* C8: a negative raw time is rejected with GridAlignmentError: no aligned
\* value comes out of the aligner.
C8_NegativeRejected ==
    al_raw < 0 => al_out = <<>>

\* two instructions of one channel overlap: the later one starts before the
\* earlier one has ended (a negative gap in t0 order)
HasConflict(instrs) ==
    \E m, n \in 1..Len(instrs) :
        /\ m # n
        /\ instrs[m].channel = instrs[n].channel
        /\ LeF(instrs[m].t0, instrs[n].t0)
        /\ LtF(instrs[n].t0, AddF(instrs[m].t0, instrs[m].duration))

\* C9: when two instructions of one channel overlap, assembly fails with
\* SchedulingConflictError and no schedule is produced.
C9_ConflictRejected ==
    HasConflict(instructions) =>
        /\ dag = NoDag
        /\ operations = <<>>
        /\ (pc # "decoding" => error = "SchedulingConflictError")

\* C10: in the assembled schedule the instructions of a channel appear in
\* non-decreasing t0 order, those of equal t0 in ascending position.
C10_ChannelOrder ==
    \A m, n \in 1..Len(dag.nodes) :
        (m < n /\ dag.nodes[m].channel = dag.nodes[n].channel) =>
            /\ LeF(dag.nodes[m].t0, dag.nodes[n].t0)
            /\ (dag.nodes[m].t0 = dag.nodes[n].t0
                  => dag.nodes[m].position < dag.nodes[n].position)

\* an assembled channel holds two instructions of equal t0 behind one that
\* was decoded after them but starts earlier
C10_Witness ==
    /\ pc = "assembled"
    /\ \E a, b, c \in 1..Len(instructions) :
          /\ a < b /\ b < c
          /\ instructions[a].channel = instructions[b].channel
          /\ instructions[b].channel = instructions[c].channel
          /\ instructions[a].t0 = instructions[b].t0
          /\ LtF(instructions[c].t0, instructions[a].t0)
          /\ dag.nodes = <<instructions[c], instructions[a], instructions[b]>>

\* C11: every edge of the schedule joins two instructions of one channel that
\* are consecutive in t0 order on it and carries the gap
\* next.t0 - (prev.t0 + prev.duration); in a schedule that is returned every
\* gap is >= 0.
C11_EdgesCarryGaps ==
    \A e \in dag.edges :
        LET prev == dag.nodes[e.parent + 1]
            next == dag.nodes[e.child + 1]
        IN /\ e.parent < e.child
           /\ prev.channel = next.channel
           /\ \A k \in (e.parent + 2)..e.child : dag.nodes[k].channel # prev.channel
           /\ e.edge = SubF(next.t0, AddF(prev.t0, prev.duration))
           /\ ~ IsNegF(e.edge)

\* what the caller hands to the constructor: kind, channel, timing and the
\* other attributes (the label and the position are given by the constructor)
ConstructedAlike(a, b) ==
    \A attr \in DOMAIN a \ {"label", "position"} : a[attr] = b[attr]

\* C12: two instructions compare equal if and only if every field other than
\* the label matches; two independently constructed instructions of identical
\* kind, channel, timing and attributes compare equal although their labels
\* differ.
C12_EqualityIgnoresLabel ==
    \A m, n \in 1..Len(instructions) :
        m # n =>
            /\ instructions[m].label # instructions[n].label
            /\ __eq__(instructions[m], instructions[n])
                  <=> ConstructedAlike(instructions[m], instructions[n])

\* this step decodes the wire instruction wire'[Len(wire')]
DecodeStep == Len(wire') = Len(wire) + 1

\* C13: decoding an Acquire wire instruction that names k qubits yields exactly
\* k Acquire instructions in the given qubit order; the n-th is registered on
\* the channel m<n-th qubit>, carries the n-th memory slot, and all k have the
\* same aligned t0 and duration.
C13_AcquireExpansion ==
    [][(DecodeStep /\ wire'[Len(wire')].name = "acquire") =>
         LET qobj_inst == wire'[Len(wire')]
             created == SubSeq(instructions', Len(instructions) + 1, Len(instructions'))
         IN /\ Len(created) = Len(qobj_inst.qubits)
            /\ \A n \in 1..Len(created) :
                  /\ created[n].name = "acquire"
                  /\ created[n].channel
                       = (IF qobj_inst.qubits[n] = 0 THEN "m0" ELSE "m1")
                  /\ created[n].memory_slot = qobj_inst.memory_slot[n]
                  /\ created[n].t0 = AlignNs(qobj_inst.t0)
                  /\ created[n].duration = AlignNs(qobj_inst.duration)
                  /\ created[n].channel \in DOMAIN channel_registry'
                  /\ channel_registry'[created[n].channel][created[n].position + 1]
                       = created[n]]_vars

\* the Acquire naming qubits 1, 0 with memory slots 0, 1 was decoded after
\* another instruction: its two instructions sit on m1 and m0, in that order
C13_Witness ==
    \E n \in 2..(Len(instructions) - 1) :
        /\ instructions[n].name = "acquire"
        /\ instructions[n + 1].name = "acquire"
        /\ instructions[n].channel = "m1" /\ instructions[n].memory_slot = 0
        /\ instructions[n + 1].channel = "m0" /\ instructions[n + 1].memory_slot = 1
        /\ instructions[n].t0 = instructions[n + 1].t0
        /\ instructions[n + 1].position >= 1

\* the channel names a wire instruction's decoding looks up in the registry
WireClocks(qobj_inst) ==
    IF qobj_inst.name = "acquire"
    THEN { (IF qobj_inst.qubits[n] = 0 THEN "m0" ELSE "m1") :
             n \in 1..Len(qobj_inst.qubits) }
    ELSE {qobj_inst.ch}

\* C14: after decoding any sequence of wire instructions with one registry,
\* the registry holds exactly one channel per distinct channel name looked up,
\* and every produced instruction appears exactly once, at its position, in
\* the list of its own channel and in no other channel's list (and the lists
\* hold nothing else).
C14_RegistryHoldsEachOnce ==
    /\ DOMAIN channel_registry = UNION {WireClocks(wire[k]) : k \in 1..Len(wire)}
    /\ \A n \in 1..Len(instructions) :
          \A clock \in DOMAIN channel_registry :
              {i \in 1..Len(channel_registry[clock]) :
                   channel_registry[clock][i].label = instructions[n].label}
                = IF clock = instructions[n].channel
                  THEN {instructions[n].position + 1} ELSE {}
    /\ \A clock \in DOMAIN channel_registry :
          \A i \in 1..Len(channel_registry[clock]) :
              \E n \in 1..Len(instructions) : instructions[n] = channel_registry[clock][i]

\* four channels after three wire instructions: m1 and m0 from one Acquire,
\* d0 holding an instruction, and d1 created by a lookup whose decoding failed
C14_Witness ==
    /\ DOMAIN channel_registry = {"m0", "m1", "d0", "d1"}
    /\ channel_registry["d1"] = <<>>
    /\ Len(channel_registry["d0"]) = 1
    /\ pc = "failed"

\* the instructions a decoding step has produced
Created == SubSeq(instructions', Len(instructions) + 1, Len(instructions'))

IsInstantaneous(qobj_inst) == qobj_inst.name \in {"setf", "shiftf", "setp", "fc"}

\* C15 as stated: the duration of a decoded instruction is, after grid
\* alignment, the duration parameter for a ParametricPulse, the length of the
\* library waveform of its name for a LibraryPulse, and the duration of the
\* wire instruction for every other kind.
C15_Original ==
    [][(DecodeStep /\ pc' = "decoding") =>
         LET qobj_inst == wire'[Len(wire')]
         IN \A n \in 1..Len(Created) :
              Created[n].duration
                = CASE qobj_inst.name = "parametric_pulse"
                         -> AlignNs(qobj_inst.parameters.duration)
                    [] IsPulseLib(qobj_inst)
                         -> AlignNs(Len(pulse_library[qobj_inst.name]))
                    [] OTHER -> AlignNs(qobj_inst.duration)]_vars

\* C15 amended: as stated for ParametricPulse, LibraryPulse, Delay and
\* Acquire; a SetFrequency, ShiftFrequency, SetPhase or ShiftPhase has the
\* duration 0, whatever duration the wire instruction gives.
C15_DurationByKind ==
    [][(DecodeStep /\ pc' = "decoding") =>
         LET qobj_inst == wire'[Len(wire')]
         IN \A n \in 1..Len(Created) :
              Created[n].duration
                = CASE qobj_inst.name = "parametric_pulse"
                         -> AlignNs(qobj_inst.parameters.duration)
                    [] IsPulseLib(qobj_inst)
                         -> AlignNs(Len(pulse_library[qobj_inst.name]))
                    [] IsInstantaneous(qobj_inst) -> ZeroF
                    [] OTHER -> AlignNs(qobj_inst.duration)]_vars

\* a ParametricPulse (duration parameter 3, wire duration 0), a ShiftPhase
\* whose wire instruction gives the duration 3 and a LibraryPulse of five
\* samples were decoded in one pass
C15_Witness ==
    /\ \E n \in 1..Len(instructions) :
          /\ instructions[n].name = "parametric_pulse"
          /\ instructions[n].duration = <<4, 0>>
    /\ \E n \in 1..Len(instructions) :
          /\ instructions[n].name = "fc" /\ instructions[n].duration = ZeroF
          /\ \E k \in 1..Len(wire) : wire[k].name = "fc" /\ wire[k].duration = 3
    /\ \E n \in 1..Len(instructions) :
          /\ instructions[n].name = "wf0" /\ instructions[n].duration = <<8, 0>>

\* the instruction the rendering loop has reached
NextToRender == instructions[Len(operations) + 1]

RenderPending == pc = "assembled" /\ Len(operations) < Len(instructions)

\* C16: decoding or rendering a LibraryPulse whose name is absent from the
\* job's waveform library fails with the lookup error (KeyError out of
\* list_from_qobj_inst, RuntimeError out of to_operation); no instruction is
\* registered on any channel and no operation is emitted for it.
C16_UnknownWaveformFails ==
    [][/\ (DecodeStep /\ IsPulseLib(wire'[Len(wire')])
                      /\ wire'[Len(wire')].name \notin DOMAIN pulse_library)
           => /\ error' = "KeyError"
              /\ pc' = "failed"
              /\ instructions' = instructions
              /\ \A clock \in DOMAIN channel_registry' :
                    channel_registry'[clock] = RegistryGet(channel_registry, clock)
              /\ operations' = operations
       /\ (RenderPending /\ IsPulseLib(NextToRender)
                         /\ NextToRender.name \notin DOMAIN pulse_library)
           => /\ error' = "RuntimeError"
              /\ pc' = "failed"
              /\ operations' = operations
              /\ channel_registry' = channel_registry]_vars

\* the rendering of a pulse named wf1, which the library does not hold, has
\* failed after an earlier instruction was rendered
C16_Witness ==
    /\ pc = "failed"
    /\ error = "RuntimeError"
    /\ Len(operations) >= 1
    /\ Len(operations) < Len(instructions)
    /\ NextToRender.name = "wf1"

\* C17: rendering an Acquire whose protocol is SSBIntegrationComplex emits two
\* weight waveforms, with protocol trace none, and in both cases the bin mode
\* and the return type of the operation are those of the job configuration;
\* with any other protocol rendering fails (RuntimeError) and emits no
\* operation.
C17_AcquireProtocols ==
    [][(RenderPending /\ NextToRender.name = "acquire") =>
         IF NextToRender.protocol \in {"SSBIntegrationComplex", "trace"}
         THEN /\ Len(operations') = Len(operations) + 1
              /\ error' = "none"
              /\ LET operation == operations'[Len(operations')]
                 IN /\ operation.info = "acquisition_info"
                    /\ operation.waveforms
                         = (IF NextToRender.protocol = "trace" THEN 0 ELSE 2)
                    /\ operation.bin_mode = native_config.bin_mode
                    /\ operation.acq_return_type = native_config.acq_return_type
         ELSE /\ error' = "RuntimeError"
              /\ pc' = "failed"
              /\ operations' = operations]_vars

\* an integrated-complex and a trace Acquire were rendered, with two weights
\* and with none, and the rendering of a third one of another protocol failed
C17_Witness ==
    /\ pc = "failed"
    /\ error = "RuntimeError"
    /\ Len(operations) = 2
    /\ {operations[1].waveforms, operations[2].waveforms} = {0, 2}
    /\ operations[1].bin_mode = native_config.bin_mode
    /\ Len(instructions) >= 3
    /\ instructions[3].protocol = UnknownProtocol

\* C18: an executor follows Idle -> Constructing -> Ready -> Running ->
\* Idle or Closed: a run starts its round trip to the backend only from Ready,
\* that is after a construct on that executor has completed, and when the run
\* ends the call is over; a run on an executor on which nothing has been
\* constructed does not reach the backend.
C18_RunOnlyFromReady ==
    [][\A t \in Threads :
          /\ (threads[t].pc # "backend" /\ threads'[t].pc = "backend")
               => ex_log.constructed >= 1
          /\ (threads[t].pc = "backend" /\ threads'[t] # threads[t])
               => threads'[t].pc = "idle"]_vars

\* C19: at most one run is in flight per executor instance at any time: no
\* run starts its round trip to the backend while an earlier run on the same
\* executor has not returned.
C19_OneRunInFlight ==
    Cardinality({t \in Threads : threads[t].pc = "backend"}) <= 1

\* the operations rendered so far for one channel, in rendering order
OperationsOn(clock) == SelectSeq(operations, LAMBDA operation : operation.clock = clock)

\* the k-th operation rendered for a channel is that of the instruction at
\* position k-1 of the channel
RenderedInPositionOrder ==
    \A clock \in DOMAIN channel_registry :
        /\ Len(OperationsOn(clock)) <= Len(channel_registry[clock])
        /\ \A k \in 1..Len(OperationsOn(clock)) :
              /\ OperationsOn(clock)[k].name = unique_name(channel_registry[clock][k])
              /\ OperationsOn(clock)[k].duration = channel_registry[clock][k].duration

MemoryValue(data, r, i) ==
    IF data.meas_return = "single"
    THEN [re |-> data.array[r][i + 1][1], im |-> data.array[r][i + 1][2]]
    ELSE [re |-> data.array[i + 1][1], im |-> data.array[i + 1][2]]

\* C21: a dataset returned by run is keyed by the acquisition-channel index
\* as a string ("0", "1", ...); under return mode single it holds, per channel,
\* one complex value real + i*imag per repetition, under avg one complex value
\* per channel, each built from the (real, imaginary) pair the backend
\* returned for it.
C21_DatasetOfComplex ==
    \A t \in Threads :
        threads[t].outcome = "dataset" =>
            LET run == threads[t]
                channels == 0..(NumMeasured(executor.class) - 1)
                repetitions == IF run.meas_return = "single" THEN run.shots ELSE 1
            IN /\ DOMAIN run.dataset = {DataVar(i) : i \in channels}
               /\ \A i \in channels :
                     /\ Len(run.dataset[DataVar(i)]) = repetitions
                     /\ \A r \in 1..repetitions :
                           run.dataset[DataVar(i)][r] = <<MemoryValue(run.data, r, i)>>

\* a run of two shots on the two-qubit executor has returned its dataset in
\* return mode single
C21_Witness ==
    \E t \in Threads :
        /\ threads[t].outcome = "dataset"
        /\ threads[t].meas_return = "single"
        /\ threads[t].shots = 2
        /\ DOMAIN threads[t].dataset = {"0", "1"}
        /\ threads[t].dataset["1"][2] # threads[t].dataset["0"][2]

\* thread t's run returns in this step, and the return mode its data are
\* shaped with is the one the backend was given
RunReturns(t) ==
    /\ threads[t].pc = "backend"
    /\ threads'[t].pc = "idle"
    /\ threads[t].meas_return = executor.meas_return

Undecodable(qobj_inst) ==
    IsPulseLib(qobj_inst) /\ qobj_inst.name \notin DOMAIN pulse_library

\* rendering this instruction fails
Unrenderable(instruction) ==
    \/ instruction.name = "acquire"
          /\ instruction.protocol \notin {"SSBIntegrationComplex", "trace"}
    \/ IsPulseLib(instruction) /\ instruction.name \notin DOMAIN pulse_library

\* C23: if decoding or rendering fails for any instruction of a job, no
\* schedule is returned for that job (a failed pass stays failed, and what
\* was rendered before the failure is not returned) and nothing of the job is
\* dispatched to the backend; a schedule that is returned holds the operation
\* of every instruction.  (Alignment and assembly never fail: C8, C9.)
C23_NoPartialSchedule ==
    [][/\ ((\E k \in 1..Len(wire') : Undecodable(wire'[k]))
            \/ (\E n \in 1..Len(instructions') : Unrenderable(instructions'[n])))
           => /\ pc' \notin {"returned", "dispatched"}
              /\ ex_log'.backend_runs = 0
       /\ pc = "failed" => pc' = "failed"
       /\ pc' \in {"returned", "dispatched"}
           => /\ error' = "none"
              /\ Len(operations') = Len(instructions')]_vars

\* the rendering of an Acquire of an unknown protocol has failed after the
\* operations of two other instructions were rendered: they are not returned
C23_Witness ==
    /\ pc = "failed"
    /\ error = "RuntimeError"
    /\ Len(operations) = 2
    /\ Len(instructions) = 3
    /\ NextToRender.name = "acquire"
    /\ ex_log.backend_runs = 0

\* C24: compiling the same descriptor twice in one process yields
\* instructions that are pairwise equal (labels aside, positions included) and
\* rendered operations with identical timing, samples and acq_index.
C24_CompilationDeterministic ==
    IF process.compiled = <<>> \/ pc # "returned" THEN TRUE
    ELSE
        /\ Len(instructions) = Len(FirstCompiled.instructions)
        /\ \A n \in 1..Len(instructions) :
              __eq__(instructions[n], FirstCompiled.instructions[n])
        /\ Len(operations) = Len(FirstCompiled.operations)
        /\ \A n \in 1..Len(operations) :
              /\ operations[n].t0 = FirstCompiled.operations[n].t0
              /\ operations[n].duration = FirstCompiled.operations[n].duration
              /\ operations[n].samples = FirstCompiled.operations[n].samples
              /\ operations[n].acq_index = FirstCompiled.operations[n].acq_index

\* the labels of the instructions of the k-th finished pass
LabelsOfPass(k) ==
    {process.compiled[k].instructions[n].label :
        n \in 1..Len(process.compiled[k].instructions)}

\* two instructions were constructed in the same pass
SamePass(a, b) ==
    \A k \in 1..Len(process.compiled) :
        (a.label \in LabelsOfPass(k)) <=> (b.label \in LabelsOfPass(k))

\* C25: no channel is shared between two compilation passes: a channel never
\* holds instructions of two passes, and the position an instruction gets is
\* the number of instructions its own pass has put on that channel before it,
\* whatever was compiled earlier in the process.
C25_NoChannelSharedBetweenPasses ==
    /\ \A i, j \in 1..Len(process.default_channel) :
          SamePass(process.default_channel[i], process.default_channel[j])
    /\ \A clock \in DOMAIN channel_registry :
          \A i \in 1..Len(channel_registry[clock]) :
              \E n \in 1..Len(instructions) :
                  instructions[n].label = channel_registry[clock][i].label
    /\ \A n \in 1..Len(instructions) :
          instructions[n].position
            = Cardinality({m \in 1..(n - 1) :
                             instructions[m].channel = instructions[n].channel})

\* C26: decoding, assembling and rendering leave the job descriptor unchanged:
\* no step changes a sample array of the job's waveform library or a
\* parameter of a wire instruction.
C26_DescriptorUnchanged ==
    [][/\ pulse_library' = pulse_library
       /\ \A k \in 1..Len(wire) : wire'[k] = wire[k]]_vars

StateAtPositionsKept ==
    \A clock \in DOMAIN channel_registry :
        \A p \in 0..Len(channel_registry[clock]) :
            ChannelStateAfter(channel_registry'[clock], p)
              = ChannelStateAfter(channel_registry[clock], p)

\* C28: a ShiftPhase(delta) at position p of a channel makes the channel phase
\* at position p+1 equal to the phase at position p plus delta, and
\* registering further instructions does not change it.
C28_ShiftPhaseAddsDelta ==
    [][/\ \A clock \in DOMAIN channel_registry' :
             LET list == channel_registry'[clock]
             IN \A p \in 0..(Len(list) - 1) :
                    list[p + 1].name = "fc" =>
                        get_phase_at_position(list, p + 1)
                          = get_phase_at_position(list, p) + list[p + 1].phase
       /\ StateAtPositionsKept]_vars

\* a ShiftPhase sits between a SetPhase and a later phase instruction of the
\* same channel: the phase after it is the set phase plus the shift
C28_Witness ==
    \E clock \in DOMAIN channel_registry :
        LET list == channel_registry[clock]
        IN /\ Len(list) = 3
           /\ list[1].name = "setp"
           /\ list[2].name = "fc"
           /\ IsPhaseInstr(list[3])
           /\ get_phase_at_position(list, 2) = list[1].phase + list[2].phase
           /\ get_phase_at_position(list, 2) # list[2].phase

ChannelLists == ("cl0.baseband" :> process.default_channel) @@ channel_registry

\* the state of a channel after all the instructions registered on it
FinalState(channel_instructions) ==
    ChannelStateAfter(channel_instructions, Len(channel_instructions))

\* this step constructs instructions (and registers them)
ConstructStep == Len(instructions') > Len(instructions)

\* C30: registering an InitialObject, Delay, ParametricPulse or LibraryPulse
\* leaves the channel's phase, frequency and acquisition count unchanged; an
\* Acquire raises the acquisition count by exactly 1 and leaves phase and
\* frequency unchanged; a phase instruction leaves frequency and acquisition
\* count unchanged, a frequency instruction phase and acquisition count; no
\* instruction changes the state of a channel other than its own.
C30_ContributionsByKind ==
    [][ConstructStep =>
         \A clock \in DOMAIN ChannelLists' :
             LET old == IF clock \in DOMAIN ChannelLists THEN ChannelLists[clock]
                        ELSE <<>>
                 new == ChannelLists'[clock]
                 self == new[Len(new)]
             IN IF Len(new) = Len(old) THEN FinalState(new) = FinalState(old)
                ELSE /\ Len(new) = Len(old) + 1
                     /\ self.channel = clock
                     /\ CASE self.name = "acquire" ->
                                FinalState(new)
                                  = [FinalState(old) EXCEPT !.acquisitions = @ + 1]
                          [] self.name \in {"setp", "fc"} ->
                                FinalState(new)
                                  = [FinalState(old) EXCEPT
                                       !.final_phase = FinalState(new).final_phase]
                          [] self.name \in {"setf", "shiftf"} ->
                                FinalState(new)
                                  = [FinalState(old) EXCEPT
                                       !.final_frequency =
                                           FinalState(new).final_frequency]
                          [] OTHER -> FinalState(new) = FinalState(old)]_vars

\* an InitialObject is on the default channel, d0 has a phase other than 0,
\* and an Acquire registered on m0 after them has raised the count of m0 to 1
C30_Witness ==
    /\ Len(process.default_channel) >= 1
    /\ Len(instructions) = 3
    /\ instructions[3].name = "acquire"
    /\ {"d0", "m0"} \subseteq DOMAIN channel_registry
    /\ FinalState(channel_registry["d0"]).final_phase # 0
    /\ FinalState(channel_registry["m0"])
         = [final_phase |-> 0, final_frequency |-> 0, acquisitions |-> 1]

\* the sample arrays of the job's waveform library as the job came with them
OriginalLibrary == [n \in {"wf0"} |-> <<0, 0, 0, 0, 0>>]

\* C31: rendering is repeatable: when two LibraryPulse instructions name the
\* same library waveform (or one is rendered again), each emitted operation
\* carries the library's original samples rotated exactly once, by the phase
\* of the channel at that instruction's own position; the rotations of
\* earlier renderings never accumulate.
C31_RenderingRepeatable ==
    [][RenderStep =>
         LET self == instructions[Len(operations')]
         IN IsPulseLib(self) =>
              operations'[Len(operations')].samples
                = Rotated(OriginalLibrary[self.name],
                          get_phase_at_position(ChannelOf(self), self.position))]_vars

\* C32: of two instructions registered on the same channel the one with the
\* strictly smaller aligned t0 has the smaller position: registration order
\* agrees with schedule order, so the channel state applied to an instruction
\* is the one left by exactly the instructions scheduled before it in time on
\* that channel.
C32_PositionFollowsT0 ==
    \A clock \in DOMAIN channel_registry :
        \A i, j \in 1..Len(channel_registry[clock]) :
            LtF(channel_registry[clock][i].t0, channel_registry[clock][j].t0)
                => channel_registry[clock][i].position
                     < channel_registry[clock][j].position

\* the wire instructions of one channel, in the order of the job
WireOn(clock) == SelectSeq(wire, LAMBDA qobj_inst : qobj_inst.ch = clock)

\* in raw nanoseconds every wire instruction of the channel starts at or
\* after the end of the one before it
RawDisjoint(clock) ==
    \A k \in 1..(Len(WireOn(clock)) - 1) :
        WireOn(clock)[k].t0 + WireOn(clock)[k].duration <= WireOn(clock)[k + 1].t0

\* C33: grid alignment alone never creates a conflict: if the wire
\* instructions of a channel do not overlap in raw nanoseconds, then after
\* start times and durations have each been aligned to the grid every gap
\* between consecutive instructions of that channel is still >= 0.
C33_AlignmentKeepsGaps ==
    pc = "assembled" =>
        \A e \in dag.edges :
            RawDisjoint(dag.nodes[e.child + 1].channel) => ~ IsNegF(e.edge)

\* thread t starts the round trip to the backend in this step, with an
\* experiment it has constructed itself
RunsOwnExperiment(t) ==
    /\ threads[t].pc = "idle"
    /\ threads[t].outcome = "tx"
    /\ threads'[t].pc = "backend"

\* C34: run executes an experiment with the shot count and the return mode of
\* the job from which that experiment was constructed, also when another job
\* with different settings is constructed on the same executor between this
\* job's construct and its run.
C34_RunUsesOwnJobSettings ==
    [][\A t \in Threads :
          RunsOwnExperiment(t) =>
              /\ threads'[t].shots = threads[t].qobj.shots
              /\ threads'[t].meas_return = threads[t].qobj.meas_return]_vars

\* the node indices (from 0) of the DAG
NodeIndices == 0..(Len(dag.nodes) - 1)

Parents(k) == {e \in dag.edges : e.child = k}

Children(k) == {e \in dag.edges : e.parent = k}

\* the channels that hold a node of the DAG
DagChannels == {dag.nodes[k + 1].channel : k \in NodeIndices}

\* the nodes of a channel that have no parent: the heads of its chains
Heads(clock) ==
    {k \in NodeIndices : dag.nodes[k + 1].channel = clock /\ Parents(k) = {}}

\* C35: in the DAG built for an experiment every instruction is exactly one
\* node, every edge links two instructions of the same channel, and the nodes
\* of each channel form one simple path in t0 order (every node has at most
\* one parent and at most one child, every edge goes forward in the sorted
\* order), so the graph is acyclic and has as many chains as there are
\* channels.
C35_DagIsChainPerChannel ==
    pc = "assembled" =>
        /\ Len(dag.nodes) = Len(instructions)
        /\ \A n \in 1..Len(instructions) :
              Cardinality({k \in NodeIndices : dag.nodes[k + 1] = instructions[n]}) = 1
        /\ \A e \in dag.edges :
              /\ e.parent \in NodeIndices /\ e.child \in NodeIndices
              /\ e.parent < e.child
              /\ dag.nodes[e.parent + 1].channel = dag.nodes[e.child + 1].channel
              /\ LeF(dag.nodes[e.parent + 1].t0, dag.nodes[e.child + 1].t0)
        /\ \A k \in NodeIndices :
              Cardinality(Parents(k)) <= 1 /\ Cardinality(Children(k)) <= 1
        /\ \A clock \in DagChannels : Cardinality(Heads(clock)) = 1
        /\ Cardinality(dag.edges) = Len(dag.nodes) - Cardinality(DagChannels)

\* three Delays were assembled: the three of one channel decoded against
\* their t0 order form one chain of two edges
C35_Witness ==
    /\ pc = "assembled"
    /\ Len(dag.nodes) = 3
    /\ Cardinality(DagChannels) = 1
    /\ Cardinality(dag.edges) = 2
    /\ LtF(instructions[3].t0, instructions[1].t0)
    /\ dag.nodes[1] = instructions[3]

\* C36: within one compiled experiment no two distinct instructions have the
\* same unique_name, so every rendered operation has a name that identifies
\* exactly one instruction.
C36_UniqueNamesDistinct ==
    \A m, n \in 1..Len(instructions) :
        m # n => unique_name(instructions[m]) # unique_name(instructions[n])

\* C37: when run rejects the return mode avg as unsupported, it does so before
\* anything is dispatched to the backend: a run whose round trip to the
\* backend has started does not end with the unsupported-mode error
\* (NotImplementedError).
C37_RefusedBeforeDispatch ==
    [][\A t \in Threads :
          threads[t].pc = "backend"
              => threads'[t].outcome # "NotImplementedError"]_vars

\* the places (1-based) at which the supervisor was told a location for a job
ToldAt(job_id, location) ==
    {i \in 1..Len(supervisor[job_id].locations) :
         supervisor[job_id].locations[i] = location}

\* C38: for every uploaded logfile the job supervisor is informed of location
\* PST_PROC_Q (queued for post-processing) before it is informed of location
\* PST_PROC_W (being post-processed), under every interleaving of the
\* upload_logfile handler and the post-processing worker.
C38_QueuedBeforeWorking ==
    \A job_id \in JobIds :
        \A w \in ToldAt(job_id, PST_PROC_W) :
            \E q \in ToldAt(job_id, PST_PROC_Q) : q < w

\* the number of post-processing tasks enqueued for a logfile
TasksFor(file_name) ==
    Cardinality({i \in 1..Len(rq_logfile_postprocessing.enqueued) :
                     rq_logfile_postprocessing.enqueued[i] = file_name})

\* the file has been stored (the worker may have moved it on since)
Stored(file_name) == file_name \in storage.upload_pool \cup storage.download_pool

\* what an upload has done: nothing when it has returned because of the
\* cancellation label; the file, one task and one PST_PROC_Q report when it
\* has returned otherwise; the report never without the task, the task never
\* without the file
UploadEffects ==
    \A file_name \in JobIds :
        /\ requests[file_name] = "halted" =>
              /\ ~ Stored(file_name)
              /\ TasksFor(file_name) = 0
              /\ ToldAt(file_name, PST_PROC_Q) = {}
        /\ requests[file_name] = "done" =>
              /\ Stored(file_name)
              /\ TasksFor(file_name) = 1
              /\ Cardinality(ToldAt(file_name, PST_PROC_Q)) = 1
        /\ ToldAt(file_name, PST_PROC_Q) # {} => TasksFor(file_name) = 1
        /\ TasksFor(file_name) >= 1 => Stored(file_name)

C39_ReadsAfterJobDone ==
    [][/\ (calibration.pc \in {"posting", "waiting"} /\ calibration'.pc = "returned")
           => /\ calibration.job_id \in red.reported
              /\ ~ calibration'.event
       /\ (calibration.pc = "returned" /\ calibration'.pc = "idle")
           => calibration.job_id \in red.reported
       /\ \A n \in 1..Len(red'.params) : red'.params[n].job_id \in red'.reported]_vars

====
